---- MODULE Spec2Model ----
(***************************************************************************)
(* Model of the FFmpeg playback engine of summit_hip_numbers               *)
(* (crates/summit_hip_numbers/src/video_player.rs) and of the parts of the *)
(* GUI controller (crates/summit_hip_numbers/src/main.rs) that drive it.   *)
(*                                                                         *)
(* A player session owns one atomic flag `eos` (used both as the           *)
(* cancellation flag and as the end-of-stream flag), one mutex-guarded     *)
(* error slot, a video decode thread, an optional audio decode thread and  *)
(* an optional audio output stream.  Every step of a thread touches the    *)
(* shared state (flag, error slot, frame channel, audio channel) at most   *)
(* once, so the interleavings of the model are those of the program.       *)
(***************************************************************************)
EXTENDS Integers, Sequences, FiniteSets, TLC

\* ---------------------------------------------------------------- bounds
\* frames (video frames, audio frames) coded in the packets of one stream;
\* the number of packets is not bounded
MaxFrames == 2
\* player sessions the GUI creates one after the other
MaxSessions == 2
\* samples requested by one invocation of the audio output callback
MaxRequest == 3
\* samples held by the shared audio buffer when the callback fires
MaxBuffered == 3
\* entries of the video directory
MaxFiles == 3
\* successful hip-number switches followed (videos_played)
MaxPlayed == 4

Sessions == 1..MaxSessions

\* the error slot holds None or the message of the failure
NoError == "None"
ErrOpen == "open failed"
ErrSend == "Failed to send packet"
ErrScale == "scaler failed"

\* the packets of the video stream: a packet coding one frame, a packet
\* coding two frames, a packet whose frame the decoder holds back until it
\* is flushed, a packet send_packet rejects, and a packet the decoder
\* accepts but for which receive_frame reports a decode error
VideoPacketKinds == {"v1", "v2", "vhold", "vbad", "vcorrupt"}
\* the same for the audio stream
AudioPacketKinds == {"a1", "ahold", "abad"}
\* outcomes of setup_audio_output: the stream runs; it fails before the
\* draining thread is spawned (the receiver is dropped); it fails after
AudioSetups == {"ok", "fail_early", "fail_late"}

NoFrame == <<>>

VARIABLES
    \* ---- VideoPlayer (one per session)
    player,         \* "none" | "live" | "dropped": the VideoPlayer value
    playResult,     \* "none" | "Ok" | "Err": what play() returned
    eos,            \* Arc<AtomicBool> eos
    error,          \* Arc<Mutex<Option<String>>> error
    video_thread,   \* _video_thread is Some
    audio_thread,   \* _audio_thread is Some
    audio_stream,   \* _audio_stream is Some
    audioSetup,     \* "unset" | "none" (no audio stream) | an AudioSetups
    stopCalls,      \* stop() calls made on the player: 0, 1, 2 (more)
    \* ---- video decode thread
    vpc,            \* position of the video thread
    vavail,         \* frames receive_frame can return now
    vheld,          \* frames the decoder holds until send_eof
    vdec,           \* frames received from the decoder so far
    verr,           \* error video_playback_loop returned (NoError: none)
    vsoft,          \* a failure the loop ignored has happened
    published,      \* frames the loop has sent on the frame channel
    \* ---- audio decode thread
    apc,            \* position of the audio thread
    aavail,         \* audio frames receive_frame can return now
    aheld,          \* audio frames the decoder holds until send_eof
    adec,           \* audio frames received from the decoder so far
    aerr,           \* audio_playback_loop returned Err
    achan,          \* sample blocks sent on the audio channel
    \* ---- frame channel (tokio watch) and the display layer
    texture,        \* the value held by the watch channel
    rx_changed,     \* the receiver has a value it has not marked seen
    rxAlive,        \* the watch receiver exists
    current_texture,\* MediaPlayerApp.current_texture
    \* ---- MediaPlayerApp.load_video
    gpc,            \* position of the GUI thread inside load_video
    video_player,   \* MediaPlayerApp.video_player (0: None)
    outgoing,       \* the player load_video has taken and is stopping
    \* ---- audio output callback
    data,           \* the output slice of the hardware callback
    audio_buffer,   \* Arc<Mutex<Vec<f32>>> audio_buffer
    cb_before,      \* slice and buffer as the last callback found them
    \* ---- the caller of VideoPlayer::new
    uri,            \* the argument of the last call of new (<<>>: none)
    \* ---- the GStreamer player (src/video_player.rs)
    gst,            \* pipeline state, bus, and the eos and error fields
    \* ---- MediaPlayerApp (main.rs) and what it reads
    video_dir,      \* the video directory on disk
    config,         \* MediaPlayerApp.config and the features of the build
    app,            \* the fields of MediaPlayerApp the controller works on
    ret,            \* the last controller call and what it returned
    \* ---- the pacing of the video loop, on a discrete clock
    rate,           \* avg_frame_rate of the video stream
    pacer,          \* frame_duration, start_time, frame_count, ...
    now,            \* Instant::now(), in nanoseconds
    \* ---- the audio path from the channel to the hardware
    drained,        \* blocks the channel-draining thread has received
    hw              \* samples the callback has copied to the hardware

ctlVars == <<player, playResult, eos, error, video_thread, audio_thread,
             audio_stream, audioSetup, stopCalls>>
vidVars == <<vpc, vavail, vheld, vdec, verr, vsoft, published>>
audVars == <<apc, aavail, aheld, adec, aerr, achan>>
chanVars == <<texture, rx_changed, rxAlive, current_texture>>
guiVars == <<gpc, video_player, outgoing>>
cbVars == <<data, audio_buffer, cb_before>>
mpaVars == <<video_dir, config, app, ret>>
paceVars == <<rate, pacer, now>>
fifoVars == <<drained, hw>>
appVars == <<uri, gst, mpaVars, paceVars, fifoVars>>
vars == <<ctlVars, vidVars, audVars, chanVars, guiVars, cbVars, appVars>>

Min(a, b) == IF a < b THEN a ELSE b

\* the container has an audio stream
HasAudio(s) == audioSetup[s] \in AudioSetups
\* the receiving end of the audio channel is alive: setup_audio_output
\* got as far as spawning the thread that drains it
AudioRx(s) == audioSetup[s] \in {"ok", "fail_late"}

\* ------------------------------------------------------- VideoPlayer API

\* VideoPlayer::is_eos
is_eos(s) == eos[s]

\* VideoPlayer::get_error
get_error(s) == error[s]

\* VideoPlayer::new: fails when the file does not exist, otherwise builds a
\* player with a fresh flag (false), an empty error slot and no threads
New(s, exists) ==
    /\ player[s] = "none"
    /\ IF exists
         THEN /\ player' = [player EXCEPT ![s] = "live"]
              /\ eos' = [eos EXCEPT ![s] = FALSE]
              /\ error' = [error EXCEPT ![s] = NoError]
              /\ video_thread' = [video_thread EXCEPT ![s] = FALSE]
              /\ audio_thread' = [audio_thread EXCEPT ![s] = FALSE]
              /\ audio_stream' = [audio_stream EXCEPT ![s] = FALSE]
         ELSE UNCHANGED <<player, eos, error, video_thread, audio_thread,
                          audio_stream>>
    /\ UNCHANGED <<playResult, audioSetup, stopCalls>>
    /\ UNCHANGED <<vidVars, audVars, chanVars, cbVars>>

\* play with one defect: a failure of setup_audio_output is propagated
\* (`?`) instead of being logged
PlayAudioFatal(s, openOk, hasVideo, hasAud, setup) ==
    /\ player[s] = "live"
    /\ playResult[s] = "none"
    /\ IF ~(openOk /\ hasVideo)
         THEN /\ playResult' = [playResult EXCEPT ![s] = "Err"]
              /\ UNCHANGED <<video_thread, audio_thread, audio_stream,
                             audioSetup, vpc, apc>>
         ELSE IF hasAud /\ setup # "ok"
                THEN /\ playResult' = [playResult EXCEPT ![s] = "Err"]
                     /\ audioSetup' = [audioSetup EXCEPT ![s] = setup]
                     /\ UNCHANGED <<video_thread, audio_thread,
                                    audio_stream, vpc, apc>>
                ELSE /\ playResult' = [playResult EXCEPT ![s] = "Ok"]
                     /\ audioSetup' = [audioSetup EXCEPT
                                         ![s] = IF hasAud THEN setup
                                                ELSE "none"]
                     /\ audio_stream' = [audio_stream EXCEPT ![s] = hasAud]
                     /\ video_thread' = [video_thread EXCEPT ![s] = TRUE]
                     /\ audio_thread' = [audio_thread EXCEPT ![s] = hasAud]
                     /\ vpc' = [vpc EXCEPT ![s] = "open"]
                     /\ apc' = [apc EXCEPT
                                  ![s] = IF hasAud THEN "open" ELSE "none"]
    /\ UNCHANGED <<player, eos, error, stopCalls>>
    /\ UNCHANGED <<vavail, vheld, vdec, verr, vsoft, published>>
    /\ UNCHANGED <<aavail, aheld, adec, aerr, achan>>
    /\ UNCHANGED <<chanVars, cbVars>>

\* VideoPlayer::play: opens the container and looks for the streams; on
\* failure returns Err with nothing spawned.  Otherwise sets up the audio
\* output when an audio stream exists (a failure is only logged), spawns
\* the video thread, spawns the audio thread whenever an audio stream
\* index exists, and stores the handles.
Play(s, openOk, hasVideo, hasAud, setup) ==
    /\ player[s] = "live"
    /\ playResult[s] = "none"
    /\ IF ~(openOk /\ hasVideo)
         THEN /\ playResult' = [playResult EXCEPT ![s] = "Err"]
              /\ UNCHANGED <<video_thread, audio_thread, audio_stream,
                             audioSetup, vpc, apc>>
         ELSE /\ playResult' = [playResult EXCEPT ![s] = "Ok"]
              /\ audioSetup' = [audioSetup EXCEPT
                                  ![s] = IF hasAud THEN setup ELSE "none"]
              /\ audio_stream' = [audio_stream EXCEPT
                                    ![s] = hasAud /\ setup = "ok"]
              /\ video_thread' = [video_thread EXCEPT ![s] = TRUE]
              /\ audio_thread' = [audio_thread EXCEPT ![s] = hasAud]
              /\ vpc' = [vpc EXCEPT ![s] = "open"]
              /\ apc' = [apc EXCEPT ![s] = IF hasAud THEN "open" ELSE "none"]
    /\ UNCHANGED <<player, eos, error, stopCalls>>
    /\ UNCHANGED <<vavail, vheld, vdec, verr, vsoft, published>>
    /\ UNCHANGED <<aavail, aheld, adec, aerr, achan>>
    /\ UNCHANGED <<chanVars, cbVars>>

\* stop with one defect: it joins the decode threads (waits until both
\* have ended and consumes their handles) before it returns
StopJoins(s) ==
    /\ player[s] = "live"
    /\ vpc[s] \in {"none", "done"}
    /\ apc[s] \in {"none", "done"}
    /\ eos' = [eos EXCEPT ![s] = TRUE]
    /\ stopCalls' = [stopCalls EXCEPT ![s] = Min(@ + 1, 2)]
    /\ video_thread' = [video_thread EXCEPT ![s] = FALSE]
    /\ audio_thread' = [audio_thread EXCEPT ![s] = FALSE]
    /\ UNCHANGED <<player, playResult, error, audio_stream, audioSetup>>
    /\ UNCHANGED <<vidVars, audVars, chanVars, cbVars>>

\* VideoPlayer::stop: stores true to the flag and returns Ok
Stop(s) ==
    /\ player[s] = "live"
    /\ eos' = [eos EXCEPT ![s] = TRUE]
    /\ stopCalls' = [stopCalls EXCEPT ![s] = Min(@ + 1, 2)]
    /\ UNCHANGED <<player, playResult, error, video_thread, audio_thread,
                   audio_stream, audioSetup>>
    /\ UNCHANGED <<vidVars, audVars, chanVars, cbVars>>

\* impl Drop for VideoPlayer: stores true to the flag; the fields are then
\* dropped, which detaches the threads and closes the audio output stream
Drop(s) ==
    /\ player[s] = "live"
    /\ player' = [player EXCEPT ![s] = "dropped"]
    /\ eos' = [eos EXCEPT ![s] = TRUE]
    /\ video_thread' = [video_thread EXCEPT ![s] = FALSE]
    /\ audio_thread' = [audio_thread EXCEPT ![s] = FALSE]
    /\ audio_stream' = [audio_stream EXCEPT ![s] = FALSE]
    /\ UNCHANGED <<playResult, error, audioSetup, stopCalls>>
    /\ UNCHANGED <<vidVars, audVars, chanVars, cbVars>>

\* ---------------------------------------------------- video decode thread

\* frames a video packet adds to the decoder's output / to its held frames
VideoReady(kind) == CASE kind = "v1" -> 1 [] kind = "v2" -> 2 [] OTHER -> 0
VideoHeld(kind) == IF kind = "vhold" THEN 1 ELSE 0
\* frames the packets sent to the decoder so far have coded
VideoCoded(s) == vdec[s] + vavail[s] + vheld[s]

\* the opening of the loop with one defect: it clears the flag before the
\* first packet is read
VideoOpenResetsFlag(s, ok) ==
    /\ vpc[s] = "open"
    /\ eos' = [eos EXCEPT ![s] = FALSE]
    /\ IF ok
         THEN /\ vpc' = [vpc EXCEPT ![s] = "pkt"]
              /\ UNCHANGED verr
         ELSE /\ vpc' = [vpc EXCEPT ![s] = "cl_err"]
              /\ verr' = [verr EXCEPT ![s] = ErrOpen]
    /\ UNCHANGED <<player, playResult, error, video_thread, audio_thread,
                   audio_stream, audioSetup, stopCalls>>
    /\ UNCHANGED <<vavail, vheld, vdec, vsoft, published>>
    /\ UNCHANGED <<audVars, chanVars, guiVars, cbVars, appVars>>

\* video_playback_loop, lines 193-218: open the container, the decoder and
\* the scaler, compute the frame interval; each `?` may return Err
VideoOpen(s, ok) ==
    /\ vpc[s] = "open"
    /\ IF ok
         THEN /\ vpc' = [vpc EXCEPT ![s] = "pkt"]
              /\ UNCHANGED verr
         ELSE /\ vpc' = [vpc EXCEPT ![s] = "cl_err"]
              /\ verr' = [verr EXCEPT ![s] = ErrOpen]
    /\ UNCHANGED <<vavail, vheld, vdec, vsoft, published>>
    /\ UNCHANGED <<ctlVars, apc, aavail, aheld, adec, aerr, achan,
                   chanVars, guiVars, cbVars, appVars>>

\* lines 220-225: the packet iterator ends, or yields a packet; the flag is
\* loaded first (return Ok when set); a packet of another stream (~mine) is
\* skipped, a packet of the video stream goes on to the decoder
VideoPacket(s, more, mine) ==
    /\ vpc[s] = "pkt"
    /\ vpc' = [vpc EXCEPT ![s] = IF ~more THEN "flush"
                                 ELSE IF eos[s] THEN "cl_ok"
                                 ELSE IF mine THEN "feed" ELSE "pkt"]
    /\ UNCHANGED <<vavail, vheld, vdec, verr, vsoft, published>>
    /\ UNCHANGED <<ctlVars, apc, aavail, aheld, adec, aerr, achan,
                   chanVars, guiVars, cbVars, appVars>>

\* lines 226-233: send_packet, without another load of the flag.  When it
\* fails the loop goes on to record the failure; when receive_frame then
\* reports a decode error the `while ... is_ok()` loop is not entered and
\* the next packet is read.  A stream is finite: it codes at most MaxFrames
\* frames and holds at most one packet of the last kind.
VideoSendPacket(s, kind) ==
    /\ vpc[s] = "feed"
    /\ VideoCoded(s) + VideoReady(kind) + VideoHeld(kind) <= MaxFrames
    /\ kind = "vcorrupt" => ~vsoft[s]
    /\ vpc' = [vpc EXCEPT ![s] = CASE kind = "vcorrupt" -> "pkt"
                                   [] kind = "vbad" -> "send_err"
                                   [] OTHER -> "recv"]
    /\ vavail' = [vavail EXCEPT ![s] = VideoReady(kind)]
    /\ vheld' = [vheld EXCEPT ![s] = @ + VideoHeld(kind)]
    /\ vsoft' = [vsoft EXCEPT ![s] = @ \/ kind = "vcorrupt"]
    /\ UNCHANGED <<vdec, verr, published>>
    /\ UNCHANGED <<ctlVars, apc, aavail, aheld, adec, aerr, achan,
                   chanVars, guiVars, cbVars, appVars>>

\* lines 227-230: send_packet failed: the message is written to the error
\* slot and the loop returns Err
VideoSendError(s) ==
    /\ vpc[s] = "send_err"
    /\ error' = [error EXCEPT ![s] = ErrSend]
    /\ verr' = [verr EXCEPT ![s] = ErrSend]
    /\ vpc' = [vpc EXCEPT ![s] = "cl_err"]
    /\ UNCHANGED <<player, playResult, eos, video_thread, audio_thread,
                   audio_stream, audioSetup, stopCalls>>
    /\ UNCHANGED <<vavail, vheld, vdec, vsoft, published>>
    /\ UNCHANGED <<audVars, chanVars, guiVars, cbVars, appVars>>

\* the receiving of a frame with one defect: the flag is not loaded before
\* the frame is converted
VideoReceiveUnchecked(s, scaleOk) ==
    /\ vpc[s] = "recv"
    /\ IF vavail[s] = 0
         THEN /\ vpc' = [vpc EXCEPT ![s] = "pkt"]
              /\ UNCHANGED <<vavail, vdec, verr>>
         ELSE /\ vavail' = [vavail EXCEPT ![s] = @ - 1]
              /\ vdec' = [vdec EXCEPT ![s] = @ + 1]
              /\ IF scaleOk
                   THEN /\ vpc' = [vpc EXCEPT ![s] = "send"]
                        /\ UNCHANGED verr
                   ELSE /\ vpc' = [vpc EXCEPT ![s] = "cl_err"]
                        /\ verr' = [verr EXCEPT ![s] = ErrScale]
    /\ UNCHANGED <<vheld, vsoft, published>>
    /\ UNCHANGED <<ctlVars, apc, aavail, aheld, adec, aerr, achan,
                   chanVars, guiVars, cbVars, appVars>>

\* lines 232-246: receive_frame; when it yields a frame the flag is loaded
\* (return Ok when set, the frame is discarded), then the frame is
\* converted (`?`: a scaler failure returns Err)
VideoReceive(s, scaleOk) ==
    /\ vpc[s] = "recv"
    /\ IF vavail[s] = 0
         THEN /\ vpc' = [vpc EXCEPT ![s] = "pkt"]
              /\ UNCHANGED <<vavail, vdec, verr>>
         ELSE /\ vavail' = [vavail EXCEPT ![s] = @ - 1]
              /\ vdec' = [vdec EXCEPT ![s] = @ + 1]
              /\ IF eos[s]
                   THEN /\ vpc' = [vpc EXCEPT ![s] = "cl_ok"]
                        /\ UNCHANGED verr
                   ELSE IF scaleOk
                          THEN /\ vpc' = [vpc EXCEPT ![s] = "send"]
                               /\ UNCHANGED verr
                          ELSE /\ vpc' = [vpc EXCEPT ![s] = "cl_err"]
                               /\ verr' = [verr EXCEPT ![s] = ErrScale]
    /\ UNCHANGED <<vheld, vsoft, published>>
    /\ UNCHANGED <<ctlVars, apc, aavail, aheld, adec, aerr, achan,
                   chanVars, guiVars, cbVars, appVars>>

\* a channel with one defect: a value the receiver has not yet seen is
\* kept and the new one is dropped
WatchSendKeepsUnseen(frame) ==
    /\ texture' = IF rx_changed THEN texture ELSE frame
    /\ rx_changed' = TRUE
    /\ UNCHANGED <<rxAlive, current_texture>>

\* watch::Sender::send: fails when no receiver exists (the value is not
\* stored); otherwise replaces the held value and marks it unseen
WatchSend(frame) ==
    /\ texture' = frame
    /\ rx_changed' = TRUE
    /\ UNCHANGED <<rxAlive, current_texture>>

\* lines 248-258: publish the frame (return Ok when the send fails), count
\* it and sleep until its deadline
VideoSend(s) ==
    /\ vpc[s] = "send"
    /\ IF rxAlive
         THEN /\ WatchSend(<<s, vdec[s]>>)
              /\ published' = [published EXCEPT ![s] = Append(@, vdec[s])]
              /\ vpc' = [vpc EXCEPT ![s] = "recv"]
         ELSE /\ vpc' = [vpc EXCEPT ![s] = "cl_ok"]
              /\ UNCHANGED <<chanVars, published>>
    /\ UNCHANGED <<vavail, vheld, vdec, verr, vsoft>>
    /\ UNCHANGED <<ctlVars, audVars, guiVars, cbVars, appVars>>

\* the end of the packet stream with one defect: the decoder is not
\* flushed and the frames it holds are never drained
VideoFlushNoDrain(s) ==
    /\ vpc[s] = "flush"
    /\ vpc' = [vpc EXCEPT ![s] = "cl_ok"]
    /\ UNCHANGED <<vavail, vheld, vdec, verr, vsoft, published>>
    /\ UNCHANGED <<ctlVars, audVars, chanVars, guiVars, cbVars, appVars>>

\* lines 263-265: after the last packet the flag is loaded; when it is not
\* set the decoder is flushed (send_eof releases the frames it holds)
VideoFlush(s) ==
    /\ vpc[s] = "flush"
    /\ IF eos[s]
         THEN /\ vpc' = [vpc EXCEPT ![s] = "cl_ok"]
              /\ UNCHANGED <<vavail, vheld>>
         ELSE /\ vpc' = [vpc EXCEPT ![s] = "frecv"]
              /\ vavail' = [vavail EXCEPT ![s] = vheld[s]]
              /\ vheld' = [vheld EXCEPT ![s] = 0]
    /\ UNCHANGED <<vdec, verr, vsoft, published>>
    /\ UNCHANGED <<ctlVars, audVars, chanVars, guiVars, cbVars, appVars>>

\* lines 266-278: receive a trailing frame; break when the flag is set; a
\* scaler failure is ignored (.ok()) and the frame is published as it is
VideoFlushReceive(s, scaleOk) ==
    /\ vpc[s] = "frecv"
    /\ IF vavail[s] = 0
         THEN /\ vpc' = [vpc EXCEPT ![s] = "cl_ok"]
              /\ UNCHANGED <<vavail, vdec, vsoft>>
         ELSE /\ vavail' = [vavail EXCEPT ![s] = @ - 1]
              /\ vdec' = [vdec EXCEPT ![s] = @ + 1]
              /\ IF eos[s]
                   THEN /\ vpc' = [vpc EXCEPT ![s] = "cl_ok"]
                        /\ UNCHANGED vsoft
                   ELSE /\ vpc' = [vpc EXCEPT ![s] = "fsend"]
                        /\ vsoft' = [vsoft EXCEPT ![s] = @ \/ ~scaleOk]
    /\ UNCHANGED <<vheld, verr, published>>
    /\ UNCHANGED <<ctlVars, audVars, chanVars, guiVars, cbVars, appVars>>

\* lines 279-286: publish the trailing frame, ignoring a failed send, count
\* it and sleep until its deadline
VideoFlushSend(s) ==
    /\ vpc[s] = "fsend"
    /\ IF rxAlive
         THEN /\ WatchSend(<<s, vdec[s]>>)
              /\ published' = [published EXCEPT ![s] = Append(@, vdec[s])]
         ELSE UNCHANGED <<chanVars, published>>
    /\ vpc' = [vpc EXCEPT ![s] = "frecv"]
    /\ UNCHANGED <<vavail, vheld, vdec, verr, vsoft>>
    /\ UNCHANGED <<ctlVars, audVars, guiVars, cbVars, appVars>>

\* the thread closure with one defect: after an Err the flag is set and
\* the error slot is left alone
VideoClosureErrorUnrecorded(s) ==
    /\ vpc[s] = "cl_err"
    /\ eos' = [eos EXCEPT ![s] = TRUE]
    /\ vpc' = [vpc EXCEPT ![s] = "cl_err_eos"]
    /\ UNCHANGED <<player, playResult, error, video_thread, audio_thread,
                   audio_stream, audioSetup, stopCalls>>
    /\ UNCHANGED <<vavail, vheld, vdec, verr, vsoft, published>>
    /\ UNCHANGED <<audVars, chanVars, guiVars, cbVars, appVars>>

\* the thread closure with another defect: it writes the text of its log
\* line to the error slot instead of the loop's message
VideoClosureErrorLogText(s) ==
    /\ vpc[s] = "cl_err"
    /\ error' = [error EXCEPT ![s] = "Video playback error"]
    /\ vpc' = [vpc EXCEPT ![s] = "cl_err_eos"]
    /\ UNCHANGED <<player, playResult, eos, video_thread, audio_thread,
                   audio_stream, audioSetup, stopCalls>>
    /\ UNCHANGED <<vavail, vheld, vdec, verr, vsoft, published>>
    /\ UNCHANGED <<audVars, chanVars, guiVars, cbVars, appVars>>

\* play, lines 107-108: the loop returned Err: its message is written to
\* the error slot
VideoClosureError(s) ==
    /\ vpc[s] = "cl_err"
    /\ error' = [error EXCEPT ![s] = verr[s]]
    /\ vpc' = [vpc EXCEPT ![s] = "cl_err_eos"]
    /\ UNCHANGED <<player, playResult, eos, video_thread, audio_thread,
                   audio_stream, audioSetup, stopCalls>>
    /\ UNCHANGED <<vavail, vheld, vdec, verr, vsoft, published>>
    /\ UNCHANGED <<audVars, chanVars, guiVars, cbVars, appVars>>

\* play, line 109 (after an error) and line 112 (after Ok): the flag is
\* set and the thread ends
VideoClosureEos(s) ==
    /\ vpc[s] \in {"cl_err_eos", "cl_ok"}
    /\ eos' = [eos EXCEPT ![s] = TRUE]
    /\ vpc' = [vpc EXCEPT ![s] = "done"]
    /\ UNCHANGED <<player, playResult, error, video_thread, audio_thread,
                   audio_stream, audioSetup, stopCalls>>
    /\ UNCHANGED <<vavail, vheld, vdec, verr, vsoft, published>>
    /\ UNCHANGED <<audVars, chanVars, guiVars, cbVars, appVars>>

VideoStep(s) ==
    \/ \E ok \in BOOLEAN : VideoOpen(s, ok)
    \/ \E more \in BOOLEAN, mine \in BOOLEAN : VideoPacket(s, more, mine)
    \/ \E kind \in VideoPacketKinds : VideoSendPacket(s, kind)
    \/ VideoSendError(s)
    \/ \E scaleOk \in BOOLEAN : VideoReceive(s, scaleOk)
    \/ VideoSend(s)
    \/ VideoFlush(s)
    \/ \E scaleOk \in BOOLEAN : VideoFlushReceive(s, scaleOk)
    \/ VideoFlushSend(s)
    \/ VideoClosureError(s)
    \/ VideoClosureEos(s)

\* ---------------------------------------------------- audio decode thread

AudioReady(kind) == IF kind = "a1" THEN 1 ELSE 0
AudioHeld(kind) == IF kind = "ahold" THEN 1 ELSE 0
\* audio frames the packets sent to the decoder so far have coded
AudioCoded(s) == adec[s] + aavail[s] + aheld[s]

\* the opening of the audio loop with one defect: a failure sets the flag,
\* as a failure of the video loop does
AudioOpenFatal(s, ok) ==
    /\ apc[s] = "open"
    /\ apc' = [apc EXCEPT ![s] = IF ok THEN "pkt" ELSE "done"]
    /\ aerr' = [aerr EXCEPT ![s] = ~ok]
    /\ eos' = [eos EXCEPT ![s] = @ \/ ~ok]
    /\ UNCHANGED <<player, playResult, error, video_thread, audio_thread,
                   audio_stream, audioSetup, stopCalls>>
    /\ UNCHANGED <<aavail, aheld, adec, achan>>
    /\ UNCHANGED <<vidVars, chanVars, guiVars, cbVars, appVars>>

\* audio_playback_loop, lines 300-305: open the container and the decoder;
\* a failure returns Err, which the thread closure only logs (play, 129)
AudioOpen(s, ok) ==
    /\ apc[s] = "open"
    /\ apc' = [apc EXCEPT ![s] = IF ok THEN "pkt" ELSE "done"]
    /\ aerr' = [aerr EXCEPT ![s] = ~ok]
    /\ UNCHANGED <<aavail, aheld, adec, achan>>
    /\ UNCHANGED <<ctlVars, vidVars, chanVars, guiVars, cbVars, appVars>>

\* lines 307-313: the packet iterator ends, or yields a packet; the flag is
\* loaded first (return Ok when set); a packet of another stream (~mine) is
\* skipped, a packet of the audio stream goes on to the decoder
AudioPacket(s, more, mine) ==
    /\ apc[s] = "pkt"
    /\ apc' = [apc EXCEPT ![s] = IF ~more THEN "flush"
                                 ELSE IF eos[s] THEN "done"
                                 ELSE IF mine THEN "feed" ELSE "pkt"]
    /\ UNCHANGED <<aavail, aheld, adec, aerr, achan>>
    /\ UNCHANGED <<ctlVars, vidVars, chanVars, guiVars, cbVars, appVars>>

\* line 314: send_packet, without another load of the flag (`?`: a failure
\* returns Err)
AudioSendPacket(s, kind) ==
    /\ apc[s] = "feed"
    /\ AudioCoded(s) + AudioReady(kind) + AudioHeld(kind) <= MaxFrames
    /\ apc' = [apc EXCEPT ![s] = IF kind = "abad" THEN "done" ELSE "recv"]
    /\ aerr' = [aerr EXCEPT ![s] = kind = "abad"]
    /\ aavail' = [aavail EXCEPT ![s] = AudioReady(kind)]
    /\ aheld' = [aheld EXCEPT ![s] = @ + AudioHeld(kind)]
    /\ UNCHANGED <<adec, achan>>
    /\ UNCHANGED <<ctlVars, vidVars, chanVars, guiVars, cbVars, appVars>>

\* lines 316-322: receive_frame; when it yields a frame the flag is loaded
\* (return Ok when set), then the samples are converted (`?`: an
\* unsupported sample format returns Err)
AudioReceive(s, convertOk) ==
    /\ apc[s] = "recv"
    /\ IF aavail[s] = 0
         THEN /\ apc' = [apc EXCEPT ![s] = "pkt"]
              /\ UNCHANGED <<aavail, adec, aerr>>
         ELSE /\ aavail' = [aavail EXCEPT ![s] = @ - 1]
              /\ adec' = [adec EXCEPT ![s] = @ + 1]
              /\ IF eos[s]
                   THEN /\ apc' = [apc EXCEPT ![s] = "done"]
                        /\ UNCHANGED aerr
                   ELSE /\ apc' = [apc EXCEPT ![s] =
                                     IF convertOk THEN "send" ELSE "done"]
                        /\ aerr' = [aerr EXCEPT ![s] = ~convertOk]
    /\ UNCHANGED <<aheld, achan>>
    /\ UNCHANGED <<ctlVars, vidVars, chanVars, guiVars, cbVars, appVars>>

\* the enqueue with one defect: the channel holds one block and a send on
\* a full channel waits for the consumer
AudioSendBounded(s) ==
    /\ apc[s] = "send"
    /\ AudioRx(s) => Len(achan[s]) < 1
    /\ IF AudioRx(s)
         THEN /\ achan' = [achan EXCEPT ![s] = Append(@, adec[s])]
              /\ apc' = [apc EXCEPT ![s] = "recv"]
         ELSE /\ apc' = [apc EXCEPT ![s] = "done"]
              /\ UNCHANGED achan
    /\ UNCHANGED <<aavail, aheld, adec, aerr>>
    /\ UNCHANGED <<ctlVars, vidVars, chanVars, guiVars, cbVars, appVars>>

\* lines 323-325: enqueue the block on the unbounded channel; return Ok
\* when the receiver is gone
AudioSend(s) ==
    /\ apc[s] = "send"
    /\ IF AudioRx(s)
         THEN /\ achan' = [achan EXCEPT ![s] = Append(@, adec[s])]
              /\ apc' = [apc EXCEPT ![s] = "recv"]
         ELSE /\ apc' = [apc EXCEPT ![s] = "done"]
              /\ UNCHANGED achan
    /\ UNCHANGED <<aavail, aheld, adec, aerr>>
    /\ UNCHANGED <<ctlVars, vidVars, chanVars, guiVars, cbVars, appVars>>

\* line 330: after the last packet the decoder is flushed (the flag is not
\* loaded here)
AudioFlush(s) ==
    /\ apc[s] = "flush"
    /\ apc' = [apc EXCEPT ![s] = "frecv"]
    /\ aavail' = [aavail EXCEPT ![s] = aheld[s]]
    /\ aheld' = [aheld EXCEPT ![s] = 0]
    /\ UNCHANGED <<adec, aerr, achan>>
    /\ UNCHANGED <<ctlVars, vidVars, chanVars, guiVars, cbVars, appVars>>

\* lines 331-336: receive a trailing frame; break when the flag is set;
\* convert (`?`)
AudioFlushReceive(s, convertOk) ==
    /\ apc[s] = "frecv"
    /\ IF aavail[s] = 0
         THEN /\ apc' = [apc EXCEPT ![s] = "done"]
              /\ UNCHANGED <<aavail, adec, aerr>>
         ELSE /\ aavail' = [aavail EXCEPT ![s] = @ - 1]
              /\ adec' = [adec EXCEPT ![s] = @ + 1]
              /\ IF eos[s]
                   THEN /\ apc' = [apc EXCEPT ![s] = "done"]
                        /\ UNCHANGED aerr
                   ELSE /\ apc' = [apc EXCEPT ![s] =
                                     IF convertOk THEN "fsend" ELSE "done"]
                        /\ aerr' = [aerr EXCEPT ![s] = ~convertOk]
    /\ UNCHANGED <<aheld, achan>>
    /\ UNCHANGED <<ctlVars, vidVars, chanVars, guiVars, cbVars, appVars>>

\* line 337: enqueue the trailing block, ignoring a failed send
AudioFlushSend(s) ==
    /\ apc[s] = "fsend"
    /\ achan' = [achan EXCEPT
                   ![s] = IF AudioRx(s) THEN Append(@, adec[s]) ELSE @]
    /\ apc' = [apc EXCEPT ![s] = "frecv"]
    /\ UNCHANGED <<aavail, aheld, adec, aerr>>
    /\ UNCHANGED <<ctlVars, vidVars, chanVars, guiVars, cbVars, appVars>>

AudioStep(s) ==
    \/ \E ok \in BOOLEAN : AudioOpen(s, ok)
    \/ \E more \in BOOLEAN, mine \in BOOLEAN : AudioPacket(s, more, mine)
    \/ \E kind \in AudioPacketKinds : AudioSendPacket(s, kind)
    \/ \E convertOk \in BOOLEAN : AudioReceive(s, convertOk)
    \/ AudioSend(s)
    \/ AudioFlush(s)
    \/ \E convertOk \in BOOLEAN : AudioFlushReceive(s, convertOk)
    \/ AudioFlushSend(s)

\* ------------------------------------------------ frame channel consumer

\* MediaPlayerApp::update, main.rs 1122-1127: when has_changed() reports an
\* unseen value, the value is read with borrow() (which does not mark it
\* seen) and, when it is Some, becomes the displayed texture
UpdateFrame ==
    /\ rxAlive
    /\ gpc = "idle"
    /\ current_texture' = IF rx_changed /\ texture # NoFrame
                            THEN texture ELSE current_texture
    /\ UNCHANGED <<texture, rx_changed, rxAlive>>
    /\ UNCHANGED <<ctlVars, vidVars, audVars, guiVars, cbVars, appVars>>

\* MediaPlayerApp is dropped, main.rs 510-535: the fields go in declaration
\* order, video_player (its Drop sets the flag) before texture_receiver
AppExit ==
    /\ rxAlive
    /\ gpc = "idle"
    /\ \A s \in Sessions : player[s] # "live"
    /\ rxAlive' = FALSE
    /\ UNCHANGED <<texture, rx_changed, current_texture>>
    /\ UNCHANGED <<ctlVars, vidVars, audVars, guiVars, cbVars, appVars>>

\* ------------------------------------------- a client of the player's API

\* (players are built while the application, and with it the receiving end
\* of the frame channel, exists)
ClientNew(exists) ==
    rxAlive /\ New(1, exists) /\ UNCHANGED <<guiVars, appVars>>

ClientPlay(openOk, hasVideo, hasAud, setup) ==
    Play(1, openOk, hasVideo, hasAud, setup) /\ UNCHANGED <<guiVars, appVars>>

ClientStop == Stop(1) /\ UNCHANGED <<guiVars, appVars>>

ClientDrop == Drop(1) /\ UNCHANGED <<guiVars, appVars>>

\* ------------------------------------------ the files new and play meet

\* what the file system holds: a container with a video and an audio
\* stream, one with a video stream only, one with an audio stream only, and
\* a file ffmpeg cannot open as a container; no other path exists
Disk ==
    [p \in {"movie.mp4", "clip.mp4", "song.mp3", "notes.txt"} |->
        [container |-> p # "notes.txt",
         video |-> p \in {"movie.mp4", "clip.mp4"},
         audio |-> p \in {"movie.mp4", "song.mp3"}]]
Paths == DOMAIN Disk \cup {"missing.mp4"}
FilePrefix == "file://"
\* a uri is a path, bare or behind one or two file:// prefixes; a prefix
\* with nothing behind it is a uri too
Uris ==
    {<<p>> : p \in Paths} \cup {<<FilePrefix, p>> : p \in Paths}
        \cup {<<FilePrefix, FilePrefix, p>> : p \in Paths} \cup {<<FilePrefix>>}

\* the path with one defect: the uri is taken as it is given
VideoPathAsGiven(u) == u

\* VideoPlayer::new, lines 30-34: a uri that starts with file:// loses every
\* leading repetition of it (trim_start_matches); any other uri is the path
RECURSIVE VideoPath(_)
VideoPath(u) ==
    IF u # <<>> /\ Head(u) = FilePrefix THEN VideoPath(Tail(u)) ELSE u

\* line 36: Path::new(&video_path).exists()
PathExists(path) == Len(path) = 1 /\ path[1] \in DOMAIN Disk

\* new(uri)
SetupNew(u) ==
    /\ rxAlive
    /\ New(1, PathExists(VideoPath(u)))
    /\ uri' = u
    /\ UNCHANGED <<guiVars, gst, mpaVars, paceVars, fifoVars>>

\* play() on the player new(uri) built: lines 66-75 open the file at
\* video_path and look for its best video and audio streams
SetupPlay(setup) ==
    /\ player[1] = "live"
    /\ LET file == Disk[VideoPath(uri)[1]]
       IN  Play(1, file.container, file.container /\ file.video,
                file.container /\ file.audio, setup)
    /\ UNCHANGED <<guiVars, appVars>>

\* -------------------------------------------------- the GStreamer player

\* bus messages the bus-watching thread reacts to
BusMessages == {"Eos", "Error"}
ErrBus == "Error from pipeline"
NoPipeline ==
    [state |-> "none", bus |-> <<>>, posted |-> FALSE,
     eos |-> FALSE, error |-> NoError]

gst_is_eos == gst.eos
gst_get_error == gst.error

\* VideoPlayer::new (GStreamer): builds the pipeline (state NULL), eos
\* false, error None, and starts the bus-watching thread
GstNew ==
    /\ gst.state = "none"
    /\ gst' = [NoPipeline EXCEPT !.state = "Null"]

\* VideoPlayer::play (GStreamer): the pipeline is set to PLAYING
GstPlay ==
    /\ gst.state = "Null"
    /\ gst' = [gst EXCEPT !.state = "Playing"]

\* VideoPlayer::stop (GStreamer): the pipeline is set to PAUSED, then to
\* NULL, which flushes the bus; the eos field is not written
GstStop ==
    /\ gst.state \in {"Null", "Playing"}
    /\ gst' = [gst EXCEPT !.state = "Null", !.bus = <<>>]

\* the playing pipeline posts the message that ends the playback
GstPost(msg) ==
    /\ gst.state = "Playing"
    /\ ~gst.posted
    /\ gst' = [gst EXCEPT !.bus = Append(@, msg), !.posted = TRUE]

\* start_bus_watching, lines 103-119: Eos sets the eos field; Error writes
\* the message to the error field and then sets the eos field
GstBusHandle ==
    /\ gst.bus # <<>>
    /\ gst' = [gst EXCEPT
                 !.bus = Tail(@),
                 !.eos = TRUE,
                 !.error = IF Head(gst.bus) = "Error" THEN ErrBus ELSE @]

\* ------------------------------------ the two players run side by side

\* both players are built on the same, existing file
PairNew ==
    /\ rxAlive
    /\ New(1, TRUE) /\ GstNew
    /\ UNCHANGED <<guiVars, uri, mpaVars, paceVars, fifoVars>>

\* play() on both
PairPlay ==
    /\ Play(1, TRUE, TRUE, FALSE, "ok") /\ GstPlay
    /\ UNCHANGED <<guiVars, uri, mpaVars, paceVars, fifoVars>>

\* the FFmpeg video loop has ended by itself: the stream ran out, or the
\* playback failed
PlaybackOver ==
    /\ vpc[1] \in {"cl_err", "cl_err_eos", "cl_ok", "done"}
    /\ stopCalls[1] = 0

\* stop() on both, in mid-playback or after both players have taken the
\* end of the playback in
PairStop ==
    /\ playResult[1] = "Ok"
    /\ PlaybackOver => (vpc[1] = "done" /\ gst.posted /\ gst.bus = <<>>)
    /\ Stop(1) /\ GstStop
    /\ UNCHANGED <<guiVars, uri, mpaVars, paceVars, fifoVars>>

\* the same end of playback reaches the GStreamer pipeline: an Error
\* message when the playback failed, an Eos message when the stream ran out
PairEnd ==
    /\ PlaybackOver
    /\ GstPost(IF verr[1] # NoError THEN "Error" ELSE "Eos")
    /\ UNCHANGED <<ctlVars, vidVars, audVars, chanVars, guiVars, cbVars, uri,
                   mpaVars, paceVars, fifoVars>>

\* the bus-watching thread takes a message
PairBus ==
    /\ GstBusHandle
    /\ UNCHANGED <<ctlVars, vidVars, audVars, chanVars, guiVars, cbVars, uri,
                   mpaVars, paceVars, fifoVars>>

\* ------------------------------------------------------ file_scanner.rs

\* characters of file names and of typed input; "e'" stands for a letter
\* that takes two bytes in UTF-8
AsciiDigits == {"0", "1", "2"}
CharCode(c) == CASE c = "0" -> 48 [] c = "1" -> 49 [] c = "2" -> 50
CharBytes(c) == IF c = "e'" THEN 2 ELSE 1

\* a directory entry: the characters of its name before the extension, the
\* extension, and whether it is a regular file
Entry(stem, ext, is_file) == [stem |-> stem, ext |-> ext, is_file |-> is_file]
DirEntries ==
    { Entry(<<"0", "0", "1">>, ".mp4", TRUE),
      Entry(<<"0", "0", "2">>, ".png", TRUE),
      Entry(<<"0", "0", "1", "b">>, ".jpeg", TRUE),
      Entry(<<"0", "1">>, ".mp4", TRUE),
      Entry(<<"0", "0", "1", "2">>, ".jpg", TRUE),
      Entry(<<"0", "0", "2">>, ".txt", TRUE),
      Entry(<<"0", "1", "0">>, ".mp4", FALSE) }

\* sequences of n distinct directory entries: the orders read_dir can
\* yield them in
RECURSIVE Listings(_)
Listings(n) ==
    IF n = 0 THEN {<<>>}
    ELSE UNION {{Append(l, e) :
                    e \in {d \in DirEntries : \A i \in 1..(n - 1) : l[i] # d}} :
                l \in Listings(n - 1)}
\* the states the video directory can be in
Dirs ==
    {[state |-> s, entries |-> <<>>] : s \in {"missing", "unreadable"}}
      \cup {[state |-> "listed", entries |-> l] :
               l \in UNION {Listings(n) : n \in 0..MaxFiles}}

ErrNoDir == "Video directory does not exist"
ErrIo == "io error"

\* the characters of a file name: those before the extension, then the
\* extension, which starts with a dot
FileName(e) == Append(e.stem, e.ext)

\* lines 34-37: chars().take_while(is_ascii_digit).collect()
RECURSIVE TakeWhileDigit(_)
TakeWhileDigit(chars) ==
    IF chars = <<>> \/ Head(chars) \notin AsciiDigits THEN <<>>
    ELSE <<Head(chars)>> \o TakeWhileDigit(Tail(chars))

\* lines 28-31: the name ends with one of the four extensions
EndsWithMedia(e) == e.ext \in {".png", ".jpg", ".jpeg", ".mp4"}

\* lines 26-45: the entry is pushed
Scanned(e) ==
    e.is_file /\ EndsWithMedia(e) /\ Len(TakeWhileDigit(FileName(e))) = 3

VideoFile(e) == [name |-> e, hip_number |-> TakeWhileDigit(FileName(e))]

\* lines 23-49: the loop over the entries
RECURSIVE PushScanned(_)
PushScanned(entries) ==
    IF entries = <<>> THEN <<>>
    ELSE (IF Scanned(Head(entries)) THEN <<VideoFile(Head(entries))>>
          ELSE <<>>) \o PushScanned(Tail(entries))

\* String::cmp: byte-wise lexicographic order
RECURSIVE StrLess(_, _)
StrLess(a, b) ==
    IF b = <<>> THEN FALSE
    ELSE IF a = <<>> THEN TRUE
    ELSE IF Head(a) = Head(b) THEN StrLess(Tail(a), Tail(b))
    ELSE CharCode(Head(a)) < CharCode(Head(b))

\* the scan with one defect: the files are left in directory order
UnsortedByHip(files) == files

\* line 52: files.sort_by(hip_number.cmp), a stable sort: a file goes
\* behind every file whose hip number is not greater
RECURSIVE InsertByHip(_, _)
InsertByHip(sorted, f) ==
    IF sorted = <<>> THEN <<f>>
    ELSE IF StrLess(f.hip_number, Head(sorted).hip_number)
           THEN <<f>> \o sorted
           ELSE <<Head(sorted)>> \o InsertByHip(Tail(sorted), f)
RECURSIVE SortByHip(_)
SortByHip(files) ==
    IF files = <<>> THEN <<>>
    ELSE InsertByHip(SortByHip(SubSeq(files, 1, Len(files) - 1)),
                     files[Len(files)])

\* scan_video_files: Err when the path does not exist, Err when read_dir
\* or an entry fails, otherwise the pushed files, sorted
scan_video_files(dir) ==
    IF dir.state = "missing"
      THEN [ok |-> FALSE, err |-> ErrNoDir, files |-> <<>>]
    ELSE IF dir.state = "unreadable"
      THEN [ok |-> FALSE, err |-> ErrIo, files |-> <<>>]
    ELSE [ok |-> TRUE, err |-> NoError,
          files |-> SortByHip(PushScanned(dir.entries))]

\* ------------------------------------------------------- MediaPlayerApp

\* Option<usize>: None is <<>>, Some(i) is <<i>>
None == <<>>
Some(i) == <<i>>

\* Config::default, and whether the build has the demo feature
DefaultConfig ==
    [demo |-> FALSE, max_videos |-> 5, hip_number_limit |-> 5,
     splash_enabled |-> TRUE, splash_interval |-> "once"]

\* MediaPlayerApp::default
DefaultApp ==
    [started |-> FALSE, video_files |-> <<>>, hip_to_index |-> <<>>,
     current_index |-> 0, load_video_index |-> None, videos_played |-> 0,
     show_no_video_popup |-> FALSE, no_video_hip |-> <<>>,
     show_splash |-> TRUE]

NoCall == [fn |-> "none", arg |-> <<>>, value |-> FALSE]

\* the map built with one defect: a hip number that is already a key keeps
\* its index
RECURSIVE InsertAllFirstWins(_, _)
InsertAllFirstWins(files, n) ==
    IF n = 0 THEN <<>>
    ELSE LET map == InsertAllFirstWins(files, n - 1)
             hip == files[n].hip_number
         IN  [h \in DOMAIN map \cup {hip} |->
                 IF h \in DOMAIN map THEN map[h] ELSE n - 1]

\* load_video_files, lines 765-768: the map is cleared and every file's
\* hip number is inserted with the file's index, in index order (insert
\* replaces the index of a hip number that is already a key)
RECURSIVE InsertAll(_, _)
InsertAll(files, n) ==
    IF n = 0 THEN <<>>
    ELSE LET map == InsertAll(files, n - 1)
             hip == files[n].hip_number
         IN  [h \in DOMAIN map \cup {hip} |->
                 IF h = hip THEN n - 1 ELSE map[h]]

\* load_video_files, lines 746-784: on Ok the files (the first max_videos
\* of them in a demo build) replace video_files, the map is rebuilt and
\* current_index is reset when there is a file; on Err nothing changes
load_video_files(a, c, dir) ==
    LET scan == scan_video_files(dir)
        files == IF c.demo /\ Len(scan.files) > c.max_videos
                   THEN SubSeq(scan.files, 1, c.max_videos)
                   ELSE scan.files
    IN  IF scan.ok
          THEN [a EXCEPT !.video_files = files,
                         !.hip_to_index = InsertAll(files, Len(files)),
                         !.current_index = IF files # <<>> THEN 0 ELSE @]
          ELSE a

\* MediaPlayerApp::new, lines 693-700: the configuration is loaded
\* (show_splash follows splash.enabled, line 713), the video directory is
\* scanned, and the first file is requested
AppNew(c, dir) ==
    /\ ~app.started
    /\ config' = c
    /\ video_dir' = dir
    /\ LET a == load_video_files([app EXCEPT !.started = TRUE], c, dir)
       IN  app' = [a EXCEPT !.show_splash = c.splash_enabled,
                            !.load_video_index =
                              IF a.video_files # <<>> THEN Some(0) ELSE @]
    /\ ret' = [fn |-> "load_video_files", arg |-> <<>>,
               value |-> scan_video_files(dir).ok]
    /\ UNCHANGED <<ctlVars, vidVars, audVars, chanVars, guiVars, cbVars,
                   uri, gst, paceVars, fifoVars>>

\* what can be typed and handed to validate_and_switch
Inputs ==
    { <<"0", "0", "1">>, <<"0", "0", "2">>, <<"0", "1", "0">>,
      <<"0", "1">>, <<"0", "0", "1", "2">>, <<"a", "0", "1">>,
      <<"e'", "1">> }

\* str::len: the length in bytes
RECURSIVE ByteLen(_)
ByteLen(s) == IF s = <<>> THEN 0 ELSE CharBytes(Head(s)) + ByteLen(Tail(s))

\* str::parse::<u32> of a string of digits
RECURSIVE ParseU32(_)
ParseU32(s) ==
    IF s = <<>> THEN 0
    ELSE 10 * ParseU32(SubSeq(s, 1, Len(s) - 1)) + (CharCode(s[Len(s)]) - 48)

\* lines 957-959: the no-video popup is raised for the input
RaisePopup(a, input) ==
    [a EXCEPT !.show_no_video_popup = TRUE, !.no_video_hip = input]

\* validate_and_switch with one defect: a successful switch is not counted
validate_and_switch_uncounted(a, c, input) ==
    IF ByteLen(input) = 3 /\ \A i \in 1..Len(input) : input[i] \in AsciiDigits
      THEN IF c.demo /\ ParseU32(input) > c.hip_number_limit
             THEN [app |-> RaisePopup(a, input), value |-> FALSE]
           ELSE IF input \in DOMAIN a.hip_to_index
             THEN [app |-> [a EXCEPT
                              !.current_index = a.hip_to_index[input],
                              !.load_video_index =
                                   Some(a.hip_to_index[input])],
                   value |-> TRUE]
           ELSE [app |-> RaisePopup(a, input), value |-> FALSE]
      ELSE [app |-> a, value |-> FALSE]

\* validate_and_switch, lines 938-963: the new fields and the value
\* returned
validate_and_switch(a, c, input) ==
    IF ByteLen(input) = 3 /\ \A i \in 1..Len(input) : input[i] \in AsciiDigits
      THEN IF c.demo /\ ParseU32(input) > c.hip_number_limit
             THEN [app |-> RaisePopup(a, input), value |-> FALSE]
           ELSE IF input \in DOMAIN a.hip_to_index
             THEN [app |-> [a EXCEPT
                              !.current_index = a.hip_to_index[input],
                              !.load_video_index =
                                   Some(a.hip_to_index[input]),
                              !.videos_played = @ + 1],
                   value |-> TRUE]
           ELSE [app |-> RaisePopup(a, input), value |-> FALSE]
      ELSE [app |-> a, value |-> FALSE]

\* update, lines 1095-1102: Enter hands the typed input to
\* validate_and_switch
ValidateAndSwitch(input) ==
    /\ app.started
    /\ app.videos_played < MaxPlayed
    /\ app' = validate_and_switch(app, config, input).app
    /\ ret' = [fn |-> "validate_and_switch", arg |-> input,
               value |-> validate_and_switch(app, config, input).value]
    /\ UNCHANGED <<ctlVars, vidVars, audVars, chanVars, guiVars, cbVars,
                   uri, gst, video_dir, config, paceVars, fifoVars>>

\* next_video, lines 965-971
next_video(a) ==
    IF a.video_files # <<>>
      THEN LET next_index == (a.current_index + 1) % Len(a.video_files)
           IN  [a EXCEPT !.current_index = next_index,
                         !.load_video_index = Some(next_index)]
      ELSE a

\* should_show_splash with one defect: every_third fires on the multiples
\* of three
should_show_splash_multiples(a, c) ==
    IF ~c.splash_enabled THEN FALSE
    ELSE CASE c.splash_interval = "once" -> a.videos_played = 0
           [] c.splash_interval = "every" -> a.videos_played > 0
           [] c.splash_interval = "every_other" ->
                 a.videos_played > 0 /\ a.videos_played % 2 = 1
           [] c.splash_interval = "every_third" ->
                 a.videos_played > 0 /\ a.videos_played % 3 = 0
           [] OTHER -> FALSE

\* should_show_splash, lines 845-856
should_show_splash(a, c) ==
    IF ~c.splash_enabled THEN FALSE
    ELSE CASE c.splash_interval = "once" -> a.videos_played = 0
           [] c.splash_interval = "every" -> a.videos_played > 0
           [] c.splash_interval = "every_other" ->
                 a.videos_played > 0 /\ a.videos_played % 2 = 1
           [] c.splash_interval = "every_third" ->
                 a.videos_played > 0 /\ a.videos_played % 3 = 1
           [] OTHER -> FALSE

\* update, lines 1076-1083: the splash is raised when it is due and not
\* showing
UpdateSplash ==
    /\ app.started
    /\ app' = [app EXCEPT !.show_splash = @ \/ should_show_splash(app, config)]
    /\ ret' = [fn |-> "should_show_splash", arg |-> <<app.videos_played>>,
               value |-> should_show_splash(app, config)]
    /\ UNCHANGED <<ctlVars, vidVars, audVars, chanVars, guiVars, cbVars,
                   uri, gst, video_dir, config, paceVars, fifoVars>>

\* update, lines 1028-1033: the splash has been up for its duration
SplashExpire ==
    /\ app.started
    /\ app.show_splash
    /\ app' = [app EXCEPT !.show_splash = FALSE]
    /\ ret' = [fn |-> "update", arg |-> <<>>, value |-> FALSE]
    /\ UNCHANGED <<ctlVars, vidVars, audVars, chanVars, guiVars, cbVars,
                   uri, gst, video_dir, config, paceVars, fifoVars>>

\* navigate_forward with one defect: it wraps at the last index, as
\* next_video does
navigate_forward_wrapping(a) == next_video(a)

\* navigate_forward, lines 973-980: len().saturating_sub(1) is 0 for an
\* empty list
navigate_forward(a) ==
    LET last == IF Len(a.video_files) = 0 THEN 0 ELSE Len(a.video_files) - 1
    IN  IF a.current_index < last
          THEN [a EXCEPT !.current_index = @ + 1,
                         !.load_video_index = Some(a.current_index + 1)]
          ELSE a

\* navigate_backward, lines 982-989
navigate_backward(a) ==
    IF a.current_index > 0
      THEN [a EXCEPT !.current_index = @ - 1,
                     !.load_video_index = Some(a.current_index - 1)]
      ELSE a

\* update, lines 1105-1114: an arrow key with an empty input buffer
Arrows == {"none", "forward", "backward"}
Navigate(a, arrow) ==
    CASE arrow = "forward" -> navigate_forward(a)
      [] arrow = "backward" -> navigate_backward(a)
      [] OTHER -> a

NavigateForward ==
    /\ app.started
    /\ app' = navigate_forward(app)
    /\ ret' = [fn |-> "navigate_forward", arg |-> <<>>,
               value |-> app.current_index + 1 < Len(app.video_files)]
    /\ UNCHANGED <<ctlVars, vidVars, audVars, chanVars, guiVars, cbVars,
                   uri, gst, video_dir, config, paceVars, fifoVars>>

NavigateBackward ==
    /\ app.started
    /\ app' = navigate_backward(app)
    /\ ret' = [fn |-> "navigate_backward", arg |-> <<>>,
               value |-> app.current_index > 0]
    /\ UNCHANGED <<ctlVars, vidVars, audVars, chanVars, guiVars, cbVars,
                   uri, gst, video_dir, config, paceVars, fifoVars>>

\* Enter was not pressed, or the input buffer is empty
NoKey == <<>>

\* MediaPlayerApp::update, lines 1025-1120, in a build without a player
\* (load_video is the stand-in of lines 932-936): the splash timer
\* (1028-1033), the popup timer (1068-1074), the splash check (1076-1083),
\* Enter (1095-1102), the arrow keys (1105-1114), and the requested index
\* taken (1116-1118)
Redraw(expired, popupExpired, key, arrow) ==
    /\ app.started
    /\ key # NoKey => app.videos_played < MaxPlayed
    /\ LET timed ==
             IF app.show_splash /\ expired
               THEN [app EXCEPT !.show_splash = FALSE] ELSE app
           popped ==
             IF timed.show_no_video_popup /\ popupExpired
               THEN [timed EXCEPT !.show_no_video_popup = FALSE] ELSE timed
           shown ==
             IF should_show_splash(popped, config) /\ ~popped.show_splash
               THEN [popped EXCEPT !.show_splash = TRUE] ELSE popped
           keyed ==
             IF key # NoKey
               THEN validate_and_switch(shown, config, key).app ELSE shown
           moved == Navigate(keyed, arrow)
       IN  /\ app' = [moved EXCEPT !.load_video_index = None]
           /\ ret' = [fn |-> "update", arg |-> key,
                      value |-> app.show_splash /\ expired]
    /\ UNCHANGED <<ctlVars, vidVars, audVars, chanVars, guiVars, cbVars,
                   uri, gst, video_dir, config, paceVars, fifoVars>>

\* what the per-redraw poll finds on the current player
PollFinds ==
    /\ video_player # 0
    /\ get_error(video_player) # NoError \/ is_eos(video_player)

\* the poll with one defect: it advances without wrapping
UpdatePlaybackNoWrap ==
    /\ app.started
    /\ gpc = "idle"
    /\ app' = IF PollFinds /\ app.current_index + 1 < Len(app.video_files)
                THEN [app EXCEPT
                        !.current_index = @ + 1,
                        !.load_video_index = Some(app.current_index + 1)]
                ELSE app
    /\ ret' = [fn |-> "update_playback", arg |-> <<>>, value |-> PollFinds]
    /\ UNCHANGED <<ctlVars, vidVars, audVars, chanVars, guiVars, cbVars,
                   uri, gst, video_dir, config, paceVars, fifoVars>>

\* update_playback, lines 1005-1021: with a current player, an error in
\* the slot, or else a set flag, calls next_video
UpdatePlayback ==
    /\ app.started
    /\ gpc = "idle"
    /\ app' = IF PollFinds THEN next_video(app) ELSE app
    /\ ret' = [fn |-> "update_playback", arg |-> <<>>, value |-> PollFinds]
    /\ UNCHANGED <<ctlVars, vidVars, audVars, chanVars, guiVars, cbVars,
                   uri, gst, video_dir, config, paceVars, fifoVars>>

\* ------------------------------------------- MediaPlayerApp::load_video

\* the session the next VideoPlayer::new builds
FreeSessions == {s \in Sessions : player[s] = "none"}
NextSession == CHOOSE s \in FreeSessions : \A t \in FreeSessions : s <= t

\* main.rs 879-883: take the current player and stop it
LoadVideoStop ==
    /\ gpc = "idle"
    /\ FreeSessions # {}
    /\ rxAlive
    /\ IF video_player # 0
         THEN /\ Stop(video_player)
              /\ outgoing' = video_player
              /\ gpc' = "settle"
         ELSE /\ UNCHANGED <<ctlVars, vidVars, audVars, chanVars, cbVars>>
              /\ outgoing' = 0
              /\ gpc' = "new"
    /\ video_player' = 0

\* main.rs 884-885: the settling delay has passed and the taken player
\* goes out of scope
LoadVideoSettle ==
    /\ gpc = "settle"
    /\ Drop(outgoing)
    /\ outgoing' = 0
    /\ gpc' = "new"
    /\ UNCHANGED video_player

\* main.rs 887-909: the path is resolved (a failure ends the load) and
\* VideoPlayer::new is called
LoadVideoNew(pathOk, exists) ==
    /\ gpc = "new"
    /\ IF pathOk
         THEN /\ New(NextSession, exists)
              /\ gpc' = IF exists THEN "play" ELSE "idle"
         ELSE /\ UNCHANGED <<ctlVars, vidVars, audVars, chanVars, cbVars>>
              /\ gpc' = "idle"
    /\ UNCHANGED <<video_player, outgoing>>

\* the player LoadVideoNew has just built
NewPlayer == CHOOSE s \in Sessions :
                 player[s] = "live" /\ playResult[s] = "none"

\* main.rs 909-917: play(); on Ok the player becomes the current one
LoadVideoPlay(openOk, hasVideo, hasAud, setup) ==
    /\ gpc = "play"
    /\ Play(NewPlayer, openOk, hasVideo, hasAud, setup)
    /\ IF openOk /\ hasVideo
         THEN /\ video_player' = NewPlayer
              /\ gpc' = "idle"
         ELSE /\ video_player' = 0
              /\ gpc' = "playfail"
    /\ UNCHANGED outgoing

\* the player whose play() failed
FailedPlayer == CHOOSE s \in Sessions :
                    player[s] = "live" /\ playResult[s] = "Err"

\* main.rs 911-914, 918: play() returned Err: the player goes out of scope
LoadVideoPlayFailed ==
    /\ gpc = "playfail"
    /\ Drop(FailedPlayer)
    /\ gpc' = "idle"
    /\ UNCHANGED <<video_player, outgoing>>

\* update, lines 1116-1118, and load_video, lines 877-888: a requested
\* index is taken, the current player is taken and stopped, and the index
\* becomes the current one when it names a file
UpdateLoad ==
    /\ app.started
    /\ app.load_video_index # None
    /\ LoadVideoStop
    /\ app' = [app EXCEPT
                 !.load_video_index = None,
                 !.current_index =
                     IF app.load_video_index[1] < Len(app.video_files)
                       THEN app.load_video_index[1] ELSE @]
    /\ ret' = [fn |-> "load_video", arg |-> app.load_video_index,
               value |-> FALSE]
    /\ UNCHANGED <<uri, gst, video_dir, config, paceVars, fifoVars>>

\* ------------------------------------------------- audio output callback

\* sample values: decoded samples, silence, and what an output slice holds
\* before the callback has written it
Samples == {1, 2}
Silence == 0
Stale == 9

\* the callback with one defect: with nothing buffered the slice is left
\* as it was handed out
OutputCallbackNoFill(d, b) ==
    LET len == Min(Len(d), Len(b))
    IN  IF len > 0
          THEN [data |-> [i \in 1..Len(d) |->
                            IF i <= len THEN b[i]
                            ELSE IF len < Len(d) THEN Silence ELSE d[i]],
                buffer |-> SubSeq(b, len + 1, Len(b))]
          ELSE [data |-> d, buffer |-> b]

\* cpal output callback, video_player.rs 164-176, on the slice d and the
\* buffer b: len = min(d.len(), b.len()); when len > 0 the first len
\* samples of b are copied to d and drained from b, and the rest of d is
\* filled with 0.0 when len < d.len(); when len = 0 all of d is filled
OutputCallback(d, b) ==
    LET len == Min(Len(d), Len(b))
    IN  IF len > 0
          THEN [data |-> [i \in 1..Len(d) |->
                            IF i <= len THEN b[i]
                            ELSE IF len < Len(d) THEN Silence ELSE d[i]],
                buffer |-> SubSeq(b, len + 1, Len(b))]
          ELSE [data |-> [i \in 1..Len(d) |-> Silence],
                buffer |-> b]

NotCalled == [called |-> FALSE, n |-> 0, b |-> <<>>]

\* the hardware invokes the callback on the slice it has handed out
AudioCallback ==
    /\ ~cb_before.called
    /\ data' = OutputCallback(data, audio_buffer).data
    /\ audio_buffer' = OutputCallback(data, audio_buffer).buffer
    /\ cb_before' = [called |-> TRUE, n |-> Len(data), b |-> audio_buffer]
    /\ UNCHANGED <<ctlVars, vidVars, audVars, chanVars, guiVars, appVars>>

\* the hardware hands out the next output slice, of n samples, holding
\* whatever it held before
HardwareRequest(n) ==
    /\ cb_before.called
    /\ data' = [i \in 1..n |-> Stale]
    /\ cb_before' = NotCalled
    /\ UNCHANGED audio_buffer
    /\ UNCHANGED <<ctlVars, vidVars, audVars, chanVars, guiVars, appVars>>

\* the draining thread, video_player.rs 155-160, appends a received block
\* of samples to the buffer
BufferExtend(block) ==
    /\ ~cb_before.called
    /\ Len(audio_buffer) + Len(block) <= MaxBuffered
    /\ audio_buffer' = audio_buffer \o block
    /\ UNCHANGED <<data, cb_before>>
    /\ UNCHANGED <<ctlVars, vidVars, audVars, chanVars, guiVars, appVars>>

\* --------------------------------- the audio path, channel to hardware

\* convert_audio_frame, video_player.rs 343-397: the k-th decoded frame of
\* a stream becomes one block of interleaved samples (here two, told apart
\* from every other sample of the stream and from silence)
convert_audio_frame(k) == <<10 * k + 1, 10 * k + 2>>

\* extend with one defect: the block is put in front of what is buffered
extend_at_front(buffer, samples) == samples \o buffer

\* Vec::extend_from_slice, line 158
extend_from_slice(buffer, samples) == buffer \o samples

\* the draining thread, lines 155-160: recv() returns the oldest block on
\* the channel, which is appended to the buffer under the mutex
DrainRecv(s) ==
    /\ AudioRx(s)
    /\ drained < Len(achan[s])
    /\ drained' = drained + 1
    /\ audio_buffer' = extend_from_slice(audio_buffer,
                           convert_audio_frame(achan[s][drained + 1]))
    /\ UNCHANGED <<data, cb_before, hw>>
    /\ UNCHANGED <<ctlVars, vidVars, audVars, chanVars, guiVars,
                   uri, gst, mpaVars, paceVars>>

NonSilence(x) == x # Silence

\* the output stream of the player, while it exists, invokes the callback
\* (lines 164-176) under the mutex on the slice the hardware handed out;
\* hw collects the samples other than 0.0 the hardware is given
StreamCallback(s) ==
    /\ audio_stream[s]
    /\ ~cb_before.called
    /\ data' = OutputCallback(data, audio_buffer).data
    /\ audio_buffer' = OutputCallback(data, audio_buffer).buffer
    /\ cb_before' = [called |-> TRUE, n |-> Len(data), b |-> audio_buffer]
    /\ hw' = hw \o SelectSeq(OutputCallback(data, audio_buffer).data,
                             NonSilence)
    /\ UNCHANGED drained
    /\ UNCHANGED <<ctlVars, vidVars, audVars, chanVars, guiVars,
                   uri, gst, mpaVars, paceVars>>

\* the sample blocks one decoded audio frame can convert to
Blocks == {<<x>> : x \in Samples} \cup {<<x, y>> : x \in Samples, y \in Samples}

\* --------------------------------------------------------- specifications

\* ------------------------------------------- the pacing of the video loop

\* frames a paced stream publishes, the longest time (ns) the loop works on
\* a frame, and the longest time (ns) a sleep overruns its request
MaxPaced == 3
MaxWork == 2
MaxOver == 1

\* Duration counts whole nanoseconds
NanosPerSec == 1000000000
\* Duration::from_millis(33)
DefaultFrameNanos == 33000000

\* the numerators and denominators of avg_frame_rate that are followed: an
\* AVRational holds two 32-bit integers, of any sign
FrameRates ==
    [num : {-1, 0, 30, NanosPerSec, 2147483647}, den : {-1, 0, 1, 2}]
NoRate == [num |-> 0, den |-> 0]

\* Duration::from_secs_f64(secs) for secs = den / num with num > 0: panics on
\* a negative value, otherwise the whole nanoseconds of the quotient
from_secs_f64(den, num) ==
    IF den < 0 THEN [panic |-> TRUE, nanos |-> 0]
    ELSE [panic |-> FALSE, nanos |-> (den * NanosPerSec) \div num]

\* video_playback_loop, lines 210-215: the interval between two frames
frame_duration(frame_rate) ==
    IF frame_rate.num > 0
      THEN from_secs_f64(frame_rate.den, frame_rate.num)
      ELSE [panic |-> FALSE, nanos |-> DefaultFrameNanos]

NoPacer ==
    [pc |-> "open", frame_duration |-> 0, start_time |-> 0,
     frame_count |-> 0, expected_time |-> 0, compared_at |-> 0,
     sleep |-> 0, sent |-> <<>>]

\* lines 210-218: the interval is computed from the stream's rate, then
\* start_time = Instant::now() and frame_count = 0
PaceOpen(frame_rate) ==
    /\ pacer.pc = "open"
    /\ rate' = frame_rate
    /\ pacer' = IF frame_duration(frame_rate).panic
                  THEN [pacer EXCEPT !.pc = "panicked"]
                  ELSE [pacer EXCEPT
                          !.pc = "decode",
                          !.frame_duration = frame_duration(frame_rate).nanos,
                          !.start_time = now]
    /\ UNCHANGED now
    /\ UNCHANGED <<ctlVars, vidVars, audVars, chanVars, guiVars, cbVars,
                   uri, gst, mpaVars, fifoVars>>

\* lines 220-246 and 263-278: reading, decoding and converting the next
\* frame takes the loop some time
PaceDecode(work) ==
    /\ pacer.pc = "decode"
    /\ pacer.frame_count < MaxPaced
    /\ now' = now + work
    /\ pacer' = [pacer EXCEPT !.pc = "send"]
    /\ UNCHANGED rate
    /\ UNCHANGED <<ctlVars, vidVars, audVars, chanVars, guiVars, cbVars,
                   uri, gst, mpaVars, fifoVars>>

\* the sleep with one defect: the deadline is not compared with the clock
SleepUnguarded(expected_time, at) == expected_time - at

\* lines 256-258 and 284-286: `if expected_time > now` the loop sleeps
\* expected_time - now; otherwise it does not sleep
SleepFor(expected_time, at) ==
    IF expected_time > at THEN expected_time - at ELSE 0

\* lines 248-258 and 279-286: the frame is sent, frame_count is
\* incremented, expected_time = start_time + frame_duration * frame_count,
\* the clock is read and the sleep is decided
PaceSend ==
    /\ pacer.pc = "send"
    /\ LET count == pacer.frame_count + 1
           expected_time == pacer.start_time + pacer.frame_duration * count
       IN  pacer' = [pacer EXCEPT
                       !.pc = IF expected_time > now THEN "sleep"
                              ELSE "decode",
                       !.sent = Append(@, now),
                       !.frame_count = count,
                       !.expected_time = expected_time,
                       !.compared_at = now,
                       !.sleep = SleepFor(expected_time, now)]
    /\ UNCHANGED <<rate, now>>
    /\ UNCHANGED <<ctlVars, vidVars, audVars, chanVars, guiVars, cbVars,
                   uri, gst, mpaVars, fifoVars>>

\* thread::sleep returns after the requested time or later
PaceWake(over) ==
    /\ pacer.pc = "sleep"
    /\ now' = now + pacer.sleep + over
    /\ pacer' = [pacer EXCEPT !.pc = "decode"]
    /\ UNCHANGED rate
    /\ UNCHANGED <<ctlVars, vidVars, audVars, chanVars, guiVars, cbVars,
                   uri, gst, mpaVars, fifoVars>>

Init ==
    /\ player = [s \in Sessions |-> "none"]
    /\ playResult = [s \in Sessions |-> "none"]
    /\ eos = [s \in Sessions |-> FALSE]
    /\ error = [s \in Sessions |-> NoError]
    /\ video_thread = [s \in Sessions |-> FALSE]
    /\ audio_thread = [s \in Sessions |-> FALSE]
    /\ audio_stream = [s \in Sessions |-> FALSE]
    /\ audioSetup = [s \in Sessions |-> "unset"]
    /\ stopCalls = [s \in Sessions |-> 0]
    /\ vpc = [s \in Sessions |-> "none"]
    /\ vavail = [s \in Sessions |-> 0]
    /\ vheld = [s \in Sessions |-> 0]
    /\ vdec = [s \in Sessions |-> 0]
    /\ verr = [s \in Sessions |-> NoError]
    /\ vsoft = [s \in Sessions |-> FALSE]
    /\ published = [s \in Sessions |-> <<>>]
    /\ apc = [s \in Sessions |-> "none"]
    /\ aavail = [s \in Sessions |-> 0]
    /\ aheld = [s \in Sessions |-> 0]
    /\ adec = [s \in Sessions |-> 0]
    /\ aerr = [s \in Sessions |-> FALSE]
    /\ achan = [s \in Sessions |-> <<>>]
    /\ texture = NoFrame
    /\ rx_changed = FALSE
    /\ rxAlive = TRUE
    /\ current_texture = NoFrame
    /\ gpc = "idle"
    /\ video_player = 0
    /\ outgoing = 0
    /\ data = <<>>
    /\ audio_buffer = <<>>
    /\ cb_before = NotCalled
    /\ uri = <<>>
    /\ gst = NoPipeline
    /\ video_dir = [state |-> "missing", entries |-> <<>>]
    /\ config = DefaultConfig
    /\ app = DefaultApp
    /\ ret = NoCall
    /\ rate = NoRate
    /\ pacer = NoPacer
    /\ now = 0
    /\ drained = 0
    /\ hw = <<>>

\* one player driven through its API, its two decode threads and the
\* display layer
Next ==
    \/ \E exists \in BOOLEAN : ClientNew(exists)
    \/ \E openOk \in BOOLEAN, hasVideo \in BOOLEAN, hasAud \in BOOLEAN,
          setup \in AudioSetups : ClientPlay(openOk, hasVideo, hasAud, setup)
    \/ ClientStop
    \/ ClientDrop
    \/ VideoStep(1)
    \/ AudioStep(1)
    \/ UpdateFrame
    \/ AppExit

Spec == Init /\ [][Next]_vars

\* the operating system schedules every runnable thread
FairSpec == Spec /\ WF_vars(VideoStep(1)) /\ WF_vars(AudioStep(1))

\* the GUI replacing one player by the next, followed for files that have
\* no audio stream (each session then has the video thread only)
ReplaceNext ==
    \/ LoadVideoStop /\ UNCHANGED appVars
    \/ LoadVideoSettle /\ UNCHANGED appVars
    \/ \E pathOk \in BOOLEAN, exists \in BOOLEAN :
          LoadVideoNew(pathOk, exists) /\ UNCHANGED appVars
    \/ \E openOk \in BOOLEAN, hasVideo \in BOOLEAN :
          LoadVideoPlay(openOk, hasVideo, FALSE, "ok") /\ UNCHANGED appVars
    \/ LoadVideoPlayFailed /\ UNCHANGED appVars
    \/ \E s \in Sessions : VideoStep(s)
    \/ UpdateFrame

ReplaceSpec == Init /\ [][ReplaceNext]_vars

\* one player built from a uri and played from the file the uri names
SetupNext ==
    \/ \E u \in Uris : SetupNew(u)
    \/ \E setup \in AudioSetups : SetupPlay(setup)
    \/ ClientStop
    \/ ClientDrop
    \/ VideoStep(1)
    \/ AudioStep(1)

SetupSpec == Init /\ [][SetupNext]_vars

\* the FFmpeg player and the GStreamer player driven by the same calls on
\* the same file
PairNext ==
    \/ PairNew
    \/ PairPlay
    \/ PairStop
    \/ PairEnd
    \/ PairBus
    \/ VideoStep(1)
    \/ UpdateFrame

PairSpec == Init /\ [][PairNext]_vars

\* the builds and configurations the controller is followed under: the
\* plain build, and demo builds with the default and with tight limits
BuildConfigs ==
    {DefaultConfig,
     [DefaultConfig EXCEPT !.demo = TRUE],
     [DefaultConfig EXCEPT !.demo = TRUE, !.max_videos = 1,
                           !.hip_number_limit = 1]}

\* the controller scanning a directory and switching on typed hip numbers
AppNext ==
    \/ \E c \in BuildConfigs, dir \in Dirs : AppNew(c, dir)
    \/ \E input \in Inputs : ValidateAndSwitch(input)

AppSpec == Init /\ [][AppNext]_vars

\* the splash settings a configuration file can hold
SplashConfigs ==
    {[DefaultConfig EXCEPT !.splash_enabled = e, !.splash_interval = i] :
        e \in BOOLEAN,
        i \in {"once", "every", "every_other", "every_third", "weekly"}}
\* a directory with two videos
TwoVideos ==
    [state |-> "listed",
     entries |-> << Entry(<<"0", "0", "2">>, ".png", TRUE),
                    Entry(<<"0", "0", "1">>, ".mp4", TRUE) >>]

\* the controller deciding about the splash screen between switches
SplashNext ==
    \/ \E c \in SplashConfigs : AppNew(c, TwoVideos)
    \/ \E input \in Inputs : ValidateAndSwitch(input)
    \/ UpdateSplash
    \/ SplashExpire

SplashSpec == Init /\ [][SplashNext]_vars

\* the controller redrawing, with the splash timer running and hip numbers
\* typed
RedrawNext ==
    \/ \E c \in SplashConfigs : AppNew(c, TwoVideos)
    \/ \E expired \in BOOLEAN, popupExpired \in BOOLEAN,
          key \in Inputs \cup {NoKey}, arrow \in Arrows :
             Redraw(expired, popupExpired, key, arrow)

\* the GUI keeps redrawing
RedrawSpec == Init /\ [][RedrawNext]_vars

\* directories with no, one and two videos
RecoveryDirs ==
    {[state |-> "listed", entries |-> SubSeq(TwoVideos.entries, 1, n)] :
        n \in 0..2}

\* the controller polling the players it loads, for files that have no
\* audio stream
RecoveryNext ==
    \/ \E dir \in RecoveryDirs : AppNew(DefaultConfig, dir)
    \/ UpdateLoad
    \/ LoadVideoSettle /\ UNCHANGED appVars
    \/ \E pathOk \in BOOLEAN, exists \in BOOLEAN :
          LoadVideoNew(pathOk, exists) /\ UNCHANGED appVars
    \/ \E openOk \in BOOLEAN, hasVideo \in BOOLEAN :
          LoadVideoPlay(openOk, hasVideo, FALSE, "ok") /\ UNCHANGED appVars
    \/ LoadVideoPlayFailed /\ UNCHANGED appVars
    \/ UpdatePlayback
    \/ \E s \in Sessions : VideoStep(s)

RecoverySpec == Init /\ [][RecoveryNext]_vars

\* the video thread on a file that fails to open or holds no packet
EmptyVideoStep(s) ==
    \/ \E ok \in BOOLEAN : VideoOpen(s, ok)
    \/ VideoPacket(s, FALSE, FALSE)
    \/ VideoFlush(s)
    \/ \E scaleOk \in BOOLEAN : VideoFlushReceive(s, scaleOk)
    \/ VideoClosureError(s)
    \/ VideoClosureEos(s)

\* the controller with every way it has of changing the index: hip numbers
\* typed, arrow keys, the poll of the player, and the loads they request,
\* for files without packets and without an audio stream
ControllerNext ==
    \/ \E c \in BuildConfigs, dir \in RecoveryDirs : AppNew(c, dir)
    \/ \E input \in Inputs : ValidateAndSwitch(input)
    \/ NavigateForward
    \/ NavigateBackward
    \/ UpdateLoad
    \/ LoadVideoSettle /\ UNCHANGED appVars
    \/ \E pathOk \in BOOLEAN, exists \in BOOLEAN :
          LoadVideoNew(pathOk, exists) /\ UNCHANGED appVars
    \/ \E openOk \in BOOLEAN, hasVideo \in BOOLEAN :
          LoadVideoPlay(openOk, hasVideo, FALSE, "ok") /\ UNCHANGED appVars
    \/ LoadVideoPlayFailed /\ UNCHANGED appVars
    \/ UpdatePlayback
    \/ \E s \in Sessions : EmptyVideoStep(s)

ControllerSpec == Init /\ [][ControllerNext]_vars

\* the steps of the GUI thread in RecoveryNext: update() runs on every
\* redraw and requests the next redraw itself (main.rs 1129)
RecoveryGuiStep ==
    \/ UpdateLoad
    \/ LoadVideoSettle /\ UNCHANGED appVars
    \/ \E pathOk \in BOOLEAN, exists \in BOOLEAN :
          LoadVideoNew(pathOk, exists) /\ UNCHANGED appVars
    \/ \E openOk \in BOOLEAN, hasVideo \in BOOLEAN :
          LoadVideoPlay(openOk, hasVideo, FALSE, "ok") /\ UNCHANGED appVars
    \/ LoadVideoPlayFailed /\ UNCHANGED appVars
    \/ UpdatePlayback

\* the GUI keeps redrawing and the decode threads keep running
RecoveryFairSpec ==
    /\ RecoverySpec
    /\ WF_vars(RecoveryGuiStep)
    /\ \A s \in Sessions : WF_vars(VideoStep(s))

\* the audio output callback fed by the draining thread
CallbackNext ==
    \/ AudioCallback
    \/ \E n \in 0..MaxRequest : HardwareRequest(n)
    \/ \E block \in Blocks : BufferExtend(block)

CallbackSpec == Init /\ [][CallbackNext]_vars

\* the audio loop, the draining thread and the hardware callback of one
\* player
FifoNext ==
    \/ \E exists \in BOOLEAN : ClientNew(exists)
    \/ \E openOk \in BOOLEAN, hasVideo \in BOOLEAN, hasAud \in BOOLEAN,
          setup \in AudioSetups : ClientPlay(openOk, hasVideo, hasAud, setup)
    \/ ClientStop
    \/ ClientDrop
    \/ AudioStep(1)
    \/ DrainRecv(1)
    \/ StreamCallback(1)
    \/ \E n \in 0..MaxRequest : HardwareRequest(n)

FifoSpec == Init /\ [][FifoNext]_vars

\* the video loop pacing the frames of one stream
PacingNext ==
    \/ \E frame_rate \in FrameRates : PaceOpen(frame_rate)
    \/ \E work \in 0..MaxWork : PaceDecode(work)
    \/ PaceSend
    \/ \E over \in 0..MaxOver : PaceWake(over)

PacingSpec == Init /\ [][PacingNext]_vars

\* ----------------------------------------------------------- properties

Stopped(s) == stopCalls[s] > 0
Dropped(s) == player[s] = "dropped"
\* video_playback_loop has returned Err
VideoFailed(s) == verr[s] # NoError
\* a decode loop of the session is running
VideoAlive(s) == vpc[s] \notin {"none", "done"}
AudioAlive(s) == apc[s] \notin {"none", "done"}
ThreadsExited(s) == ~VideoAlive(s) /\ ~AudioAlive(s)
LastPublished(s) == published[s][Len(published[s])]

\* C1: once is_eos() is true the video loop of the session publishes no
\* further frame on the frame channel.
C1_NoPublishAfterEos ==
    [][\A s \in Sessions : is_eos(s) => published'[s] = published[s]]_vars

\* C2: after stop() on a playing session both decode threads eventually
\* leave their loops, whatever is left undecoded, and is_eos() is true once
\* they have.
C2_StopEndsThreads ==
    /\ (Stopped(1) /\ playResult[1] = "Ok") ~> ThreadsExited(1)
    /\ [](Stopped(1) /\ playResult[1] = "Ok" /\ ThreadsExited(1)
            => is_eos(1))

\* C2 happens: stop() was called, both threads have ended and frames were
\* left in the decoder
C2_Witness ==
    /\ Stopped(1)
    /\ vpc[1] = "done" /\ apc[1] = "done"
    /\ vavail[1] + vheld[1] > 0
    /\ is_eos(1)

\* C3: decode loops of two sessions are never alive at the same time: the
\* threads of the player the GUI replaces have ended before the next
\* session's pipeline is built.
C3_OneSessionAlive ==
    \A s \in Sessions, u \in Sessions :
        (s < u /\ playResult[u] = "Ok") => ~VideoAlive(s) /\ ~AudioAlive(s)

\* C4: the flag starts false at construction and no step stores false to
\* it: once is_eos() is true it stays true for the life of the player.
C4_FlagMonotonic ==
    [][\A s \in Sessions :
          /\ is_eos(s) => eos'[s]
          /\ (player[s] = "none" /\ player'[s] = "live") => ~eos'[s]]_vars

\* C4 happens: the flag is set while both threads that hold it are running
C4_Witness == is_eos(1) /\ VideoAlive(1) /\ AudioAlive(1) /\ ~Stopped(1)

\* C5: when the video loop fails, the message is in the error slot before
\* the flag is set (without stop()/drop, is_eos() implies get_error() is
\* Some), and eventually get_error() is Some, is_eos() is true and the
\* thread has ended.
C5_ErrorBeforeEos ==
    /\ [](\A s \in Sessions :
            (VideoFailed(s) /\ ~Stopped(s) /\ ~Dropped(s) /\ is_eos(s))
               => get_error(s) # NoError)
    /\ VideoFailed(1)
          ~> (get_error(1) # NoError /\ is_eos(1) /\ vpc[1] = "done")

\* C5 happens: the loop failed on a frame conversion, nobody stopped the
\* player, and the poller sees both the message and the flag
C5_Witness ==
    /\ verr[1] = ErrScale /\ ~Stopped(1) /\ ~Dropped(1)
    /\ is_eos(1) /\ get_error(1) = ErrScale

\* a step that is a stop() call on session s
StopStep(s) == stopCalls'[s] # stopCalls[s]
\* a step that drops the player of session s
DropStep(s) == player[s] = "live" /\ player'[s] = "dropped"

\* C6: stop() only sets the flag: it can be called whatever the threads
\* are doing, it leaves the error slot, the handles, the audio stream and
\* the threads as they are, and a repeated stop(), or a drop after it,
\* changes nothing else that a poller or a thread can see.
C6_StopOnlySetsFlag ==
    /\ [](player[1] = "live" => ENABLED ClientStop /\ ENABLED ClientDrop)
    /\ [][\A s \in Sessions :
            /\ StopStep(s) =>
                 /\ eos'[s]
                 /\ <<player, playResult, error, video_thread, audio_thread,
                      audio_stream, audioSetup>>'
                      = <<player, playResult, error, video_thread,
                          audio_thread, audio_stream, audioSetup>>
                 /\ <<vidVars, audVars, chanVars>>'
                      = <<vidVars, audVars, chanVars>>
            /\ (DropStep(s) /\ Stopped(s)) =>
                 /\ <<eos, error, playResult>>' = <<eos, error, playResult>>
                 /\ <<vidVars, audVars, chanVars>>'
                      = <<vidVars, audVars, chanVars>>]_vars

\* C6 happens: stop() has been called twice while the video thread holds a
\* frame and the audio output is open, then the player was dropped
C6_Witness ==
    /\ stopCalls[1] = 2 /\ Dropped(1)
    /\ vpc[1] = "send" /\ audioSetup[1] = "ok"

\* C7: with no audio stream, or with an audio stream whose output setup
\* failed, play() returned Ok, the video thread was spawned, and the error
\* slot is None unless the video loop itself failed.
C7_AudioIsSoft ==
    \A s \in Sessions :
        audioSetup[s] \in {"none", "fail_early", "fail_late"} =>
            /\ playResult[s] = "Ok"
            /\ vpc[s] # "none"
            /\ (get_error(s) # NoError => VideoFailed(s))

\* C7 happens: the audio output could not be set up and the video loop
\* has published every frame of the stream
C7_Witness ==
    /\ audioSetup[1] = "fail_early"
    /\ Len(published[1]) = MaxFrames
    /\ get_error(1) = NoError

\* what the callback must leave in a slice of n samples and in the buffer,
\* given the buffer b it found
CallbackOutput(n, b) ==
    [i \in 1..n |-> IF i <= Min(n, Len(b)) THEN b[i] ELSE Silence]
CallbackRest(n, b) ==
    [i \in 1..(Len(b) - Min(n, Len(b))) |-> b[i + Min(n, Len(b))]]

\* C8: the callback writes the first k = min(n, |b|) buffered samples, in
\* order, to the first k output samples, silence to the other n - k, and
\* leaves the buffer without its first k samples.
C8_CallbackDrains ==
    cb_before.called =>
        /\ data = CallbackOutput(cb_before.n, cb_before.b)
        /\ audio_buffer = CallbackRest(cb_before.n, cb_before.b)

\* C8 happens: the callback found fewer samples than it was asked for
C8_Witness ==
    /\ cb_before.called
    /\ Len(cb_before.b) > 0 /\ Len(cb_before.b) < cb_before.n

\* C9: a publish succeeds whenever a receiver exists, seen or not the
\* frame before it; the channel holds exactly the last frame published;
\* what the display layer reads is that last frame.
C9_LatestFrame ==
    /\ [](texture = IF published[1] = <<>> THEN NoFrame
                    ELSE <<1, LastPublished(1)>>)
    /\ [][/\ (vpc[1] = "send" /\ vpc'[1] # "send" /\ rxAlive)
               => published'[1] = Append(published[1], vdec[1])
          /\ current_texture' # current_texture
               => current_texture' = <<1, LastPublished(1)>>]_vars

\* C9 happens: two frames or more were published, the display layer shows
\* the last of them, and the loop is still running
C9_Witness ==
    /\ Len(published[1]) >= 2
    /\ current_texture = <<1, LastPublished(1)>>
    /\ VideoAlive(1)

\* no stop(), no drop, no failure: the stream plays to its natural end
NaturalEnd(s) ==
    ~Stopped(s) /\ ~Dropped(s) /\ ~VideoFailed(s) /\ ~vsoft[s]

\* C10: on a stream that decodes without error and is never stopped, the
\* frames are published once each in decode order, the trailing frames of
\* the flushed decoder included; is_eos() is false until the last of them
\* is out, and eventually true.
C10_NaturalEnd ==
    /\ [](\A s \in Sessions : NaturalEnd(s) =>
            /\ published[s] = [i \in 1..Len(published[s]) |-> i]
            /\ Len(published[s]) =
                 IF vpc[s] \in {"send", "fsend"} THEN vdec[s] - 1
                 ELSE vdec[s]
            /\ is_eos(s) <=> vpc[s] = "done"
            /\ vpc[s] = "done" =>
                 /\ vavail[s] = 0 /\ vheld[s] = 0
                 /\ Len(published[s]) = VideoCoded(s))
    /\ playResult[1] = "Ok" ~> is_eos(1)

\* C10 happens: the loop is about to publish a trailing frame after an
\* earlier one, on a stream that plays to its natural end
C10_Witness ==
    /\ NaturalEnd(1) /\ vpc[1] = "fsend"
    /\ Len(published[1]) >= 1

\* the path a uri names, bare or behind its prefixes
NamedPath(u) == u[Len(u)]
\* no decode thread of the session exists and no handle is stored
NothingSpawned(s) ==
    /\ vpc[s] = "none" /\ apc[s] = "none"
    /\ ~video_thread[s] /\ ~audio_thread[s] /\ ~audio_stream[s]

\* C11: new(uri) fails exactly when the path the uri names, bare or behind
\* file://, does not exist; play() fails exactly when the file is not a
\* container or has no video stream; after either failure no thread has
\* been spawned, get_error() is None and is_eos() is false as long as
\* nobody stops or drops the player.
C11_SetupFailures ==
    uri # <<>> =>
        /\ player[1] = "none" <=> NamedPath(uri) \notin DOMAIN Disk
        /\ player[1] = "none" =>
             /\ NothingSpawned(1) /\ playResult[1] = "none"
             /\ ~is_eos(1) /\ get_error(1) = NoError
        /\ playResult[1] = "Err" <=>
             /\ playResult[1] # "none"
             /\ ~(Disk[NamedPath(uri)].container /\ Disk[NamedPath(uri)].video)
        /\ playResult[1] = "Err" =>
             /\ NothingSpawned(1)
             /\ get_error(1) = NoError
             /\ (~Stopped(1) /\ ~Dropped(1)) => ~is_eos(1)

\* C11 happens: a file without video stream, named behind file://, was
\* handed to new and then to play, which failed
C11_Witness ==
    /\ uri = <<FilePrefix, "song.mp3">>
    /\ player[1] = "live" /\ playResult[1] = "Err" /\ ~is_eos(1)

\* neither player has work pending: the FFmpeg threads have ended or were
\* never started, the bus is empty, and a playback that is over in one
\* player is over in the other
PairSettled ==
    /\ gst.state # "none"
    /\ ~VideoAlive(1) /\ ~AudioAlive(1)
    /\ gst.bus = <<>>
    /\ (gst.state = "Playing" /\ PlaybackOver) => gst.posted

\* C12: whenever both players have settled after the same calls and the
\* same end of playback, is_eos() gives the same answer in both, and
\* get_error() is Some in both or None in both.
C12_SameContract ==
    PairSettled =>
        /\ is_eos(1) = gst_is_eos
        /\ (get_error(1) = NoError) = (gst_get_error = NoError)

\* a step that is a call of update_playback
UpdatePlaybackStep ==
    ret'.fn = "update_playback" /\ (ret' # ret \/ app' # app)

\* C13: when the poll finds an error or the flag on the current player, the
\* index after the current one, wrapping from the last file to 0, becomes
\* both the current and the requested index; when it finds neither, or
\* there is no file, nothing is requested.
C13_RecoveryAdvances ==
    [][UpdatePlaybackStep =>
         IF PollFinds /\ Len(app.video_files) > 0
           THEN /\ app'.load_video_index =
                     Some(IF app.current_index = Len(app.video_files) - 1
                            THEN 0 ELSE app.current_index + 1)
                /\ app'.current_index = app'.load_video_index[1]
           ELSE app'.load_video_index = app.load_video_index]_vars

\* C13 happens: the second of two files failed while playing, and the poll
\* has requested the first again
C13_Witness ==
    /\ ret.fn = "update_playback" /\ ret.value
    /\ Len(app.video_files) = 2
    /\ video_player = 2 /\ get_error(2) # NoError
    /\ app.load_video_index = Some(0)

\* a step that is a call of validate_and_switch
ValidateStep ==
    ret'.fn = "validate_and_switch" /\ (ret' # ret \/ app' # app)
ThreeDigits(input) ==
    Len(input) = 3 /\ \A i \in 1..3 : input[i] \in AsciiDigits
\* the switch has happened: the mapped index is current and requested, and
\* one more video is counted
Switched(input) ==
    /\ app'.current_index = app.hip_to_index[input]
    /\ app'.load_video_index = Some(app.hip_to_index[input])
    /\ app'.videos_played = app.videos_played + 1
\* the three fields a refused input leaves alone
NotSwitched ==
    /\ app'.current_index = app.current_index
    /\ app'.load_video_index = app.load_video_index
    /\ app'.videos_played = app.videos_played
PopupFor(input) ==
    app'.show_no_video_popup /\ app'.no_video_hip = input

WithinDemoLimit(input) ==
    ~(config.demo /\ ParseU32(input) > config.hip_number_limit)

FilesLoaded == app.started /\ video_dir.state = "listed"
\* the hip number of the file at index i (counted from 0)
HipAt(i) == app.video_files[i + 1].hip_number
FileIndexes == 0..(Len(app.video_files) - 1)

\* C15 as stated: after load_video_files succeeds the keys of hip_to_index
\* are exactly the hip numbers of video_files, and every file's hip number
\* is mapped to that file's index.
C15_AsStated ==
    FilesLoaded =>
        /\ DOMAIN app.hip_to_index = {HipAt(i) : i \in FileIndexes}
        /\ \A i \in FileIndexes : app.hip_to_index[HipAt(i)] = i

\* C15: after load_video_files succeeds the keys of hip_to_index are
\* exactly the hip numbers of video_files, and a hip number is mapped to
\* the index of the last file that has it: to the file's own index when no
\* later file shares its hip number.
C15_LastIndexWins ==
    FilesLoaded =>
        /\ DOMAIN app.hip_to_index = {HipAt(i) : i \in FileIndexes}
        /\ \A i \in FileIndexes :
              /\ HipAt(app.hip_to_index[HipAt(i)]) = HipAt(i)
              /\ app.hip_to_index[HipAt(i)] >= i
              /\ \A j \in FileIndexes :
                    HipAt(j) = HipAt(i) => j <= app.hip_to_index[HipAt(i)]

\* C15 happens: three files were scanned, two of them with the same hip
\* number
C15_Witness ==
    /\ FilesLoaded /\ Len(app.video_files) = 3
    /\ HipAt(0) = HipAt(1) /\ HipAt(2) # HipAt(1)
    /\ app.hip_to_index[HipAt(0)] = 1 /\ app.hip_to_index[HipAt(2)] = 2

\* the name has a leading run of exactly three ASCII digits
ThreeDigitPrefix(e) ==
    /\ Len(e.stem) >= 3
    /\ \A i \in 1..3 : e.stem[i] \in AsciiDigits
    /\ Len(e.stem) > 3 => e.stem[4] \notin AsciiDigits
\* a regular file with a media extension and a three-digit prefix
Playable(e) ==
    /\ e.is_file
    /\ e.ext \in {".png", ".jpg", ".jpeg", ".mp4"}
    /\ ThreeDigitPrefix(e)
\* how often an entry occurs in a scan result
Occurrences(files, e) ==
    Cardinality({i \in 1..Len(files) : files[i].name = e})

VideoPassedCheck(s) == IF vpc[s] \in {"feed", "send", "fsend"} THEN 1 ELSE 0
\* the same for the audio loop
AudioPassedCheck(s) == IF apc[s] \in {"feed", "send", "fsend"} THEN 1 ELSE 0
\* this step feeds a packet to the video decoder / the audio decoder
VideoFed(s) == vpc[s] = "feed" /\ vpc'[s] # "feed"
AudioFed(s) == apc[s] = "feed" /\ apc'[s] # "feed"
\* frames this step publishes, blocks this step enqueues
VideoPublished(s) == Len(published'[s]) - Len(published[s])
AudioEnqueued(s) == Len(achan'[s]) - Len(achan[s])

\* C18 as stated: once the flag is set the video loop publishes at most one
\* further frame, the audio loop enqueues at most one further block, and
\* neither loop feeds another packet to its decoder.
C18_AsStated ==
    [][\A s \in Sessions : (eos[s] /\ eos'[s]) =>
          /\ ~VideoFed(s) /\ ~AudioFed(s)
          /\ VideoPassedCheck(s)' + VideoPublished(s) <= VideoPassedCheck(s)
          /\ AudioPassedCheck(s)' + AudioEnqueued(s) <= AudioPassedCheck(s)
      ]_vars

\* C18: the flag is loaded once per demuxed packet and once per decoded
\* frame in both loops.  Once the flag is set, each loop acts at most once
\* more, on the packet or frame that had already passed its check: the
\* video loop either publishes one further frame or feeds one further
\* packet to its decoder, the audio loop either enqueues one further block
\* or feeds one further packet, and neither passes another check.
C18_CancelGranularity ==
    [][\A s \in Sessions : (eos[s] /\ eos'[s]) =>
          /\ VideoPassedCheck(s)' + VideoPublished(s)
                + (IF VideoFed(s) THEN 1 ELSE 0) <= VideoPassedCheck(s)
          /\ AudioPassedCheck(s)' + AudioEnqueued(s)
                + (IF AudioFed(s) THEN 1 ELSE 0) <= AudioPassedCheck(s)
      ]_vars

\* C18 happens: stop set the flag while the video loop held a frame that
\* had passed its check and the audio loop a packet that had passed its
\* check
C18_Witness ==
    /\ is_eos(1) /\ stopCalls[1] > 0
    /\ vpc[1] = "send" /\ apc[1] = "feed"

\* this step is a send_packet that the decoder rejects / a send_packet
\* after which receive_frame reports a decode error
VideoSendFailed(s) == VideoFed(s) /\ vpc'[s] = "send_err"
VideoReceiveFailed(s) == VideoFed(s) /\ ~vsoft[s] /\ vsoft'[s]

\* C19: every decoder failure on the video path, a failed send_packet and
\* a failed receive_frame alike, ends the loop with an error that is
\* written to the error slot; none is skipped with decoding going on at the
\* next packet.
C19_DecoderFailuresFatal ==
    [][\A s \in Sessions :
          /\ (VideoSendFailed(s) \/ VideoReceiveFailed(s))
                => vpc'[s] = "send_err"
          /\ (vpc[s] = "send_err" /\ vpc'[s] # "send_err")
                => (vpc'[s] = "cl_err" /\ get_error(s)' # NoError)
      ]_vars

\* this step writes the error slot: line 228 in the loop, line 108 in the
\* thread closure
ErrorWritten(s) ==
    \/ vpc[s] = "send_err" /\ vpc'[s] = "cl_err"
    \/ vpc[s] = "cl_err" /\ vpc'[s] = "cl_err_eos"

\* C20 as stated: once the error slot holds a message, no thread writes it
\* again.
C20_AsStated ==
    [][\A s \in Sessions : ErrorWritten(s) => get_error(s) = NoError]_vars

\* C20: once the error slot holds a message, get_error() returns that
\* message for the rest of the session: the one later write there can be
\* (by the thread closure, after the loop recorded a failed send_packet
\* itself) stores the same message again.
C20_FirstErrorStays ==
    [][\A s \in Sessions :
          get_error(s) # NoError =>
             /\ get_error(s)' = get_error(s)
             /\ ErrorWritten(s) => (get_error(s) = ErrSend
                                      /\ vpc[s] = "cl_err")
      ]_vars

\* C20 happens: the loop recorded a failed send_packet, the closure wrote
\* the slot again, and the poller reads the message
C20_Witness ==
    /\ verr[1] = ErrSend /\ vpc[1] = "done"
    /\ get_error(1) = ErrSend /\ is_eos(1)

\* this step is a step of the audio decode thread of session s (the loop or
\* the closure around it)
AudioThreadStep(s) ==
    /\ apc[s] \notin {"none", "done"}
    /\ apc'[s] # apc[s] \/ aavail'[s] # aavail[s] \/ achan'[s] # achan[s]

\* C21: no step of the audio decode thread writes the error slot or the
\* flag, whether it fails or not; with the audio loop failed, is_eos() is
\* true only once the video thread has ended (or after stop()/drop) and
\* get_error() is Some only when the video loop failed: the video loop goes
\* on publishing.
C21_AudioFailsAlone ==
    /\ [][\A s \in Sessions : AudioThreadStep(s) =>
             (is_eos(s)' = is_eos(s) /\ get_error(s)' = get_error(s))]_vars
    /\ [](\A s \in Sessions : aerr[s] =>
            /\ (is_eos(s) => (vpc[s] = "done" \/ Stopped(s) \/ Dropped(s)))
            /\ (get_error(s) # NoError => VideoFailed(s)))

\* C21 happens: the audio loop failed before it decoded anything and the
\* video loop has since published every frame of the stream, with the flag
\* clear and no error recorded
C21_Witness ==
    /\ aerr[1] /\ apc[1] = "done" /\ adec[1] = 0
    /\ Len(published[1]) = MaxFrames
    /\ ~is_eos(1) /\ get_error(1) = NoError

\* C22: a session has an audio decode thread, or keeps an audio output
\* stream, only if its file has an audio stream and the audio output was
\* set up: with no audio stream or a failed setup no audio decode thread is
\* ever spawned.
C22_AudioOnlyWhenSetUp ==
    \A s \in Sessions :
        (apc[s] # "none" \/ audio_thread[s] \/ audio_stream[s])
            => audioSetup[s] = "ok"

\* C23: a frame the display layer has observed is not observed again: once
\* the displayed texture is the frame the channel holds, a redraw poll
\* (has_changed()) reports nothing new until a newer frame is published.
C23_TakeOnRead ==
    (texture # NoFrame /\ current_texture = texture) => ~rx_changed

\* this step is a publish that fails because the frame channel has no
\* receiver / an enqueue that fails because the audio receiver is gone
PublishFailed(s) ==
    vpc[s] \in {"send", "fsend"} /\ vpc'[s] # vpc[s] /\ ~rxAlive
EnqueueFailed(s) ==
    apc[s] \in {"send", "fsend"} /\ apc'[s] # apc[s] /\ ~AudioRx(s)
\* the video loop is on its way out: it has returned Ok, or it is in the
\* flush loop with no frame left to receive or with the flag set, where
\* the next frame breaks the loop; no error is recorded
VideoStopsProducing(s) ==
    /\ \/ vpc'[s] = "cl_ok"
       \/ vpc'[s] = "frecv" /\ (vavail'[s] = 0 \/ is_eos(s)')
    /\ get_error(s)' = NoError /\ verr'[s] = NoError
\* the same for the audio loop
AudioStopsProducing(s) ==
    /\ \/ apc'[s] = "done"
       \/ apc'[s] = "frecv" /\ (aavail'[s] = 0 \/ is_eos(s)')
    /\ ~aerr'[s]

\* C24: a consumer that is gone is a stop signal, not an error, in the
\* packet phase and in the flush phase of each loop: after a publish that
\* fails for want of a receiver the video loop attempts no further
\* publication and ends with the flag set and the error slot None; after an
\* enqueue that fails for want of a receiver the audio loop attempts no
\* further enqueue and stops without error.
C24_ConsumerGoneStops ==
    [][\A s \in Sessions :
          /\ PublishFailed(s) => VideoStopsProducing(s)
          /\ EnqueueFailed(s) => AudioStopsProducing(s)
      ]_vars

\* C25: the interval between frames comes from the stream's average frame
\* rate; a rate with a zero denominator gives the default interval of
\* 33 ms, and the interval used for pacing is never zero.
C25_FrameRateFallback ==
    pacer.pc \notin {"open", "panicked"} =>
        /\ rate.den = 0 => pacer.frame_duration = DefaultFrameNanos
        /\ pacer.frame_duration > 0

\* C26: after sending its k-th frame the loop computes the deadline
\* start_time + k * frame_duration; when the deadline is later than the
\* clock it sleeps exactly the difference, otherwise it does not sleep: the
\* sleep is never negative, a frame is never sent before the deadline of
\* the frame before it, and no gap between two sends is negative.
C26_Pacing ==
    /\ [](pacer.frame_count >= 1 =>
            /\ pacer.expected_time =
                 pacer.start_time + pacer.frame_count * pacer.frame_duration
            /\ pacer.sleep >= 0
            /\ pacer.sleep = IF pacer.expected_time > pacer.compared_at
                               THEN pacer.expected_time - pacer.compared_at
                               ELSE 0
            /\ pacer.pc = "sleep" => pacer.sleep > 0)
    /\ [][(pacer.pc = "sleep" /\ pacer'.pc # "sleep")
             => now' >= pacer.expected_time]_vars
    /\ [](\A k \in 2..Len(pacer.sent) :
            /\ pacer.sent[k] >=
                 pacer.start_time + (k - 1) * pacer.frame_duration
            /\ pacer.sent[k] - pacer.sent[k - 1] >= 0)

\* C26 happens: the second frame was sent on its deadline after a sleep,
\* the third after its deadline had passed, and the loop did not sleep
C26_Witness ==
    /\ pacer.frame_duration = 2 /\ Len(pacer.sent) = 3
    /\ pacer.sent[2] = pacer.start_time + 2
    /\ pacer.sent[3] > pacer.expected_time
    /\ pacer.pc = "decode" /\ pacer.sleep = 0

\* load_video has returned without a player: the path could not be
\* resolved, or new or play returned Err
SetupFailed ==
    /\ app.started /\ gpc = "idle"
    /\ video_player = 0 /\ app.load_video_index = None

\* C27: after a load that failed at setup, with two files or more in the
\* list, a load is eventually requested again without operator input.
C27_RetryAfterSetupFailure ==
    (SetupFailed /\ Len(app.video_files) >= 2)
        ~> (app.load_video_index # None)

\* this step is a redraw
RedrawStep == ret'.fn = "update" /\ (ret' # ret \/ app' # app)

\* C28: a redraw that finds the splash displayed for its duration leaves
\* show_splash false, and show_splash is raised again only after the
\* operator has selected a video: with interval "once" the splash appears
\* only at the start.
C28_SplashDismissed ==
    [][RedrawStep =>
          /\ ret'.value => ~app'.show_splash
          /\ (~app.show_splash /\ app'.show_splash) => app.videos_played > 0
          /\ (config.splash_interval = "once" /\ app.started
                /\ ~app.show_splash) => ~app'.show_splash
      ]_vars

\* this step is a call of the controller method fn
ControllerCall(fn) == ret'.fn = fn /\ (ret' # ret \/ app' # app)
\* the last index of a non-empty list
AtLast(a) == a.video_files # <<>> /\ a.current_index = Len(a.video_files) - 1

\* C29: whenever video_files is non-empty, current_index and any pending
\* load_video_index are below its length; navigate_forward at the last
\* index and navigate_backward at index 0 change nothing, whereas next_video
\* wraps from the last index to 0.
C29_IndexValid ==
    /\ [](app.video_files # <<>> =>
            /\ app.current_index < Len(app.video_files)
            /\ app.load_video_index # None =>
                  app.load_video_index[1] < Len(app.video_files))
    /\ [][/\ (ControllerCall("navigate_forward") /\ AtLast(app))
                => app' = app
          /\ (ControllerCall("navigate_backward") /\ app.current_index = 0)
                => app' = app
          /\ (ControllerCall("update_playback") /\ ret'.value /\ AtLast(app))
                => (app'.current_index = 0
                      /\ app'.load_video_index = Some(0))
         ]_vars

\* C29 happens: with two files, navigate_forward was called at the last
\* index and left it there
C29_Witness ==
    /\ ret.fn = "navigate_forward" /\ ~ret.value
    /\ Len(app.video_files) = 2 /\ app.current_index = 1
    /\ app.videos_played > 0

\* ---- C30

RECURSIVE Flatten(_)
\* the concatenation of the sample blocks of the frames in q, in order
Flatten(q) ==
    IF q = <<>> THEN <<>>
    ELSE convert_audio_frame(Head(q)) \o Flatten(Tail(q))

IsPrefix(p, q) == Len(p) <= Len(q) /\ SubSeq(q, 1, Len(p)) = p

\* C30: the samples other than silence the hardware has been given,
\* followed by what the buffer holds, are the concatenation of the blocks
\* the draining thread has received, which are the first blocks enqueued,
\* which were enqueued in decode order; so what the hardware has been
\* given is a prefix of the enqueued stream.  A loop that has a block to
\* enqueue can always take its step, whatever is on the channel.
C30_AudioFifo ==
    /\ drained <= Len(achan[1])
    /\ \A i \in 1..Len(achan[1]) : achan[1][i] = i
    /\ hw \o audio_buffer = Flatten(SubSeq(achan[1], 1, drained))
    /\ IsPrefix(hw, Flatten(achan[1]))
    /\ apc[1] \in {"send", "fsend"} => ENABLED AudioStep(1)

\* the callback has been short of samples once and filled with silence,
\* and has then handed over the rest of the first block and a part of
\* the second, while the audio loop is still running
C30_Witness ==
    /\ hw = <<11, 12, 21>>
    /\ audio_buffer = <<22>>
    /\ drained = 2
    /\ cb_before.called
    /\ data = <<12, 21>>
    /\ apc[1] # "done"

====
